---- MODULE Spec2Model ----
(***************************************************************************)
(* Conversation state of the On-Premise LLM chat extension: the saved-chat *)
(* window handlers (extension.ts), the persistence manager and its codec   *)
(* (services/persistenceManager.ts, and the globalState manager that went  *)
(* before it) and the chat transport (openwebuiService.ts).                *)
(*                                                                         *)
(* JavaScript values are modelled as tagged records, JSON text as a        *)
(* sequence of tokens (whitespace abstracted away), JSON.stringify and     *)
(* JSON.parse as a printer and a recursive-descent parser over tokens.     *)
(***************************************************************************)
EXTENDS Integers, Sequences, FiniteSets, TLC

VARIABLES
    settings,   \* the extension's settings as getConfig reads them:
                \* openwebuiUrl, apiKey, defaultModel, systemPrompt
    persistence,\* the PersistenceManager the handlers import: "file" (the
                \* workspace file, saved and loaded asynchronously) or
                \* "globalState" (the stored entry, synchronous)
    workspace,  \* TRUE iff vscode.workspace.workspaceFolders[0] exists
    file,       \* the persisted conversation, .vscode-chat-history.json or
                \* the globalState entry: [exists, text]
    io,         \* readFile and writeFile calls that have not settled, in
                \* the order they were started
    asking,     \* asking[s]: number of openChat commands suspended in the
                \* await s of ensureConfig and promptForConfig
    panel,      \* panel[w]: the webview panel of window w exists
    open,       \* open[w]: the panel exists and its message handler is
                \* registered
    config,     \* config[w]: the ChatConfig ensureConfig gave window w
    saved,      \* saved[w]: the closure variable savedChatHistory of window w
    inflight,   \* backend chat requests awaiting their response, oldest first
    refreshing, \* refreshModels handlers awaiting getAvailableModels, oldest
                \* first: [w, request]
    exporting,  \* exportConversation handlers awaiting the save dialog or the
                \* write of the chosen file: [w, chatType, text, stage]
    emitted,    \* events posted or raised by the latest handler step
    calls,      \* the saveConversationHistory and postMessage calls of the
                \* latest step that returned, in the order it made them
    logged,     \* warnings and errors the latest step wrote to the log
    last,       \* the command or continuation the latest step ran
    ncmds,      \* number of UI commands handled so far
    codec,      \* codec exercise: [pc, from, shape, conv, text, result]
    svc,        \* OpenWebUIService call exercise: [pc, op, w, model,
                \* systemPrompt, given, messages, issued, resp, result]
    exported    \* what the latest step of an export did: [outcome, text,
                \* notice]

vars == <<settings, persistence, workspace, file, io, asking, panel, open, config,
          saved, inflight, refreshing, exporting, emitted, calls, logged, last,
          ncmds, codec, svc, refreshing, exporting, exported>>

\* the variables of the windows, which the exercises of the codec and of the
\* service leave alone
windowVars ==
    <<settings, persistence, workspace, file, io, asking, panel, open, config, saved,
      inflight, refreshing, exporting, calls>>

(***************************************************************************)
(* JavaScript values                                                       *)
(***************************************************************************)
Undefined == [t |-> "undefined"]
JNull == [t |-> "null"]
JStr(s) == [t |-> "string", s |-> s]
JNum(n) == [t |-> "number", n |-> n]
JBool(b) == [t |-> "boolean", b |-> b]
JArr(a) == [t |-> "array", a |-> a]
\* an object is its list of members [k |-> key, v |-> value], in insertion order
JObj(o) == [t |-> "object", o |-> o]
\* a Promise object: it has no length, no push and no unshift, and
\* JSON.stringify prints it as an object without members
JPromise == [t |-> "promise"]

Member(k, v) == [k |-> k, v |-> v]

\* ToBoolean of a value: used by `x && ...`, `x || ...`, `!x`
Truthy(v) ==
    CASE v.t = "undefined" -> FALSE
      [] v.t = "null" -> FALSE
      [] v.t = "string" -> v.s # ""
      [] v.t = "number" -> v.n # "0"
      [] v.t = "boolean" -> v.b
      [] OTHER -> TRUE

HasKey(v, k) == v.t = "object" /\ \E i \in 1..Len(v.o) : v.o[i].k = k

\* property read v.k (v neither null nor undefined: those throw a TypeError)
Get(v, k) ==
    IF HasKey(v, k)
    THEN v.o[CHOOSE i \in 1..Len(v.o) : v.o[i].k = k].v
    ELSE Undefined

\* Array.isArray
IsArray(v) == v.t = "array"

\* the object literal {role: role, content: content}
MsgV(role, content) ==
    JObj(<<Member("role", JStr(role)), Member("content", content)>>)

\* a ConversationMessage whose content is the string content
Msg(role, content) == MsgV(role, JStr(content))

\* Array.prototype.push on an array value
push(arr, m) == JArr(Append(arr.a, m))

\* the elements of a history, none when it is no array
Elems(h) == IF IsArray(h) THEN h.a ELSE <<>>

\* String.prototype.trim() leaves something
NonBlank(s) == s \notin {"", " ", "  "}

(***************************************************************************)
(* JSON text                                                               *)
(***************************************************************************)
Tok(k, v) == [k |-> k, v |-> v]
LBrace == Tok("punct", "{")
RBrace == Tok("punct", "}")
LBracket == Tok("punct", "[")
RBracket == Tok("punct", "]")
Colon == Tok("punct", ":")
Comma == Tok("punct", ",")

RECURSIVE JSONstringify(_)
RECURSIVE StringifyElems(_)
RECURSIVE StringifyMembers(_, _)

\* array elements, comma separated; an undefined element prints as null
StringifyElems(a) ==
    IF a = <<>> THEN <<>>
    ELSE LET h == IF Head(a).t = "undefined" THEN <<Tok("null", "null")>>
                  ELSE JSONstringify(Head(a))
         IN  IF Len(a) = 1 THEN h
             ELSE h \o <<Comma>> \o StringifyElems(Tail(a))

\* object members, comma separated; a member whose value is undefined is skipped
StringifyMembers(o, first) ==
    IF o = <<>> THEN <<>>
    ELSE IF Head(o).v.t = "undefined" THEN StringifyMembers(Tail(o), first)
    ELSE (IF first THEN <<>> ELSE <<Comma>>)
         \o <<Tok("string", Head(o).k), Colon>> \o JSONstringify(Head(o).v)
         \o StringifyMembers(Tail(o), FALSE)

JSONstringify(v) ==
    CASE v.t = "string" -> <<Tok("string", v.s)>>
      [] v.t = "number" -> <<Tok("number", v.n)>>
      [] v.t = "null" -> <<Tok("null", "null")>>
      [] v.t = "boolean" -> <<Tok("boolean", IF v.b THEN "true" ELSE "false")>>
      [] v.t = "array" -> <<LBracket>> \o StringifyElems(v.a) \o <<RBracket>>
      [] v.t = "object" -> <<LBrace>> \o StringifyMembers(v.o, TRUE) \o <<RBrace>>
      [] v.t = "promise" -> <<LBrace, RBrace>>

ParseFail == [ok |-> FALSE, val |-> Undefined, rest |-> <<>>]
ParseOk(v, rest) == [ok |-> TRUE, val |-> v, rest |-> rest]

\* o with member k set to v: a repeated key keeps its place and takes the last value
PutMember(o, k, v) ==
    IF \E i \in 1..Len(o) : o[i].k = k
    THEN [i \in 1..Len(o) |-> IF o[i].k = k THEN Member(k, v) ELSE o[i]]
    ELSE Append(o, Member(k, v))

RECURSIVE ParseValue(_)
RECURSIVE ParseElems(_, _)
RECURSIVE ParseMembers(_, _)

ParseElems(toks, acc) ==
    LET r == ParseValue(toks) IN
    IF ~r.ok \/ r.rest = <<>> THEN ParseFail
    ELSE IF Head(r.rest) = Comma THEN ParseElems(Tail(r.rest), Append(acc, r.val))
    ELSE IF Head(r.rest) = RBracket THEN ParseOk(JArr(Append(acc, r.val)), Tail(r.rest))
    ELSE ParseFail

ParseMembers(toks, acc) ==
    IF Len(toks) < 3 \/ toks[1].k # "string" \/ toks[2] # Colon THEN ParseFail
    ELSE LET r == ParseValue(SubSeq(toks, 3, Len(toks))) IN
         IF ~r.ok \/ r.rest = <<>> THEN ParseFail
         ELSE IF Head(r.rest) = Comma
              THEN ParseMembers(Tail(r.rest), PutMember(acc, toks[1].v, r.val))
         ELSE IF Head(r.rest) = RBrace
              THEN ParseOk(JObj(PutMember(acc, toks[1].v, r.val)), Tail(r.rest))
         ELSE ParseFail

ParseValue(toks) ==
    IF toks = <<>> THEN ParseFail
    ELSE LET h == Head(toks)
             rest == Tail(toks)
         IN  CASE h.k = "string" -> ParseOk(JStr(h.v), rest)
               [] h.k = "number" -> ParseOk(JNum(h.v), rest)
               [] h.k = "null" -> ParseOk(JNull, rest)
               [] h.k = "boolean" -> ParseOk(JBool(h.v = "true"), rest)
               [] h = LBracket ->
                    IF rest # <<>> /\ Head(rest) = RBracket
                    THEN ParseOk(JArr(<<>>), Tail(rest))
                    ELSE ParseElems(rest, <<>>)
               [] h = LBrace ->
                    IF rest # <<>> /\ Head(rest) = RBrace
                    THEN ParseOk(JObj(<<>>), Tail(rest))
                    ELSE ParseMembers(rest, <<>>)
               [] OTHER -> ParseFail

\* JSON.parse: [ok, val]; ok = FALSE stands for the SyntaxError it throws
JSONparse(text) ==
    LET r == ParseValue(text) IN
    IF r.ok /\ r.rest = <<>> THEN [ok |-> TRUE, val |-> r.val]
    ELSE [ok |-> FALSE, val |-> Undefined]

(***************************************************************************)
(* Persistence codec                                                       *)
(***************************************************************************)
\* new Date().toISOString(): the clock is abstracted to one instant
Now == "2025-08-15T00:00:00.000Z"

\* a thrown Error, as the result of a call
Thrown(msg) == [ok |-> FALSE, val |-> Undefined, err |-> msg]
Returned(v) == [ok |-> TRUE, val |-> v, err |-> ""]

\* an export written under the key of the workspace file, "history"; the
\* round trip C8 states tells it from serializeConversation
serializeUnderHistoryKey(convHistory) ==
    JSONstringify(JObj(<<Member("version", JStr("1.0")),
                         Member("exportDate", JStr(Now)),
                         Member("extensionName", JStr("On-Premise LLM Chat")),
                         Member("history", convHistory)>>))

\* a serialization that leaves the conversation field out when the history
\* is empty; the envelope C26 states tells it from serializeConversation
serializeOmitsEmpty(convHistory) ==
    JSONstringify(JObj(<<Member("version", JStr("1.0")),
                         Member("exportDate", JStr(Now)),
                         Member("extensionName", JStr("On-Premise LLM Chat")),
                         Member("conversation",
                                IF convHistory = JArr(<<>>) THEN Undefined
                                ELSE convHistory)>>))

serializeConversation(convHistory) ==
    JSONstringify(JObj(<<Member("version", JStr("1.0")),
                         Member("exportDate", JStr(Now)),
                         Member("extensionName", JStr("On-Premise LLM Chat")),
                         Member("conversation", convHistory)>>))

\* a guard without the Array.isArray test; the validation C9 states tells it
\* from AcceptsConversation
AcceptsAnyTruthy(c) == Truthy(c)

\* the guard of deserializeConversation: data.conversation && Array.isArray(...)
AcceptsConversation(c) == Truthy(c) /\ IsArray(c)

deserializeConversation(jsonData) ==
    LET p == JSONparse(jsonData) IN
    IF ~p.ok THEN Thrown("Failed to import conversation: SyntaxError")
    ELSE IF p.val.t = "null"
         THEN Thrown("Failed to import conversation: TypeError")
    ELSE LET c == Get(p.val, "conversation") IN
         IF AcceptsConversation(c) THEN Returned(c)
         ELSE Thrown("Failed to import conversation: Error: Invalid conversation format")

\* the text saveConversationHistory writes: JSON.stringify(saveData)
SavedText(convHistory) ==
    JSONstringify(JObj(<<Member("history", convHistory),
                         Member("lastUpdated", JStr(Now))>>))

\* the persisted conversation: none, or the text last written
NoFile == [exists |-> FALSE, text |-> <<>>]
FileOf(text) == [exists |-> TRUE, text |-> text]

\* a call of vscode.workspace.fs that has not settled: the readFile of a
\* load, or the writeFile of a save with the text it was called with, made
\* for window w
FileOp(kind, w, text) == [kind |-> kind, w |-> w, text |-> text]

\* what the promise of loadConversationHistory (file manager) is fulfilled
\* with: `saved.history || []`, and [] when there is no workspace, readFile
\* rejects, JSON.parse throws or saved is null
loadConversationHistory(f, ws) ==
    IF ~ws \/ ~f.exists THEN JArr(<<>>)
    ELSE LET p == JSONparse(f.text) IN
         IF ~p.ok \/ p.val.t = "null" THEN JArr(<<>>)
         ELSE LET h == Get(p.val, "history") IN
              IF Truthy(h) THEN h ELSE JArr(<<>>)

\* loadConversationHistory of the globalState manager, which returns at
\* once: `saved?.history || []` of the stored entry
globalStateLoad(f) ==
    IF ~f.exists THEN JArr(<<>>)
    ELSE LET h == Get(JSONparse(f.text).val, "history") IN
         IF Truthy(h) THEN h ELSE JArr(<<>>)

(***************************************************************************)
(* Chat transport                                                          *)
(***************************************************************************)
\* `systemPrompt && systemPrompt.trim()`
HasPrompt(systemPrompt) == systemPrompt # "" /\ NonBlank(systemPrompt)

\* a sendChat that tests the system prompt without the trim, so that a
\* whitespace-only prompt is sent as a message; C30 tells it from ChatRequest
ChatRequestUntrimmed(messages, model, systemPrompt) ==
    IF model = "" THEN Thrown("Model name is required")
    ELSE Returned([model |-> model,
                   messages |-> (IF systemPrompt # ""
                                 THEN <<MsgV("user", JStr(systemPrompt))>>
                                 ELSE <<>>) \o messages.a,
                   stream |-> FALSE])

\* a sendChat without the `!model` test, which sends a request that names no
\* model; C17 tells it from ChatRequest
ChatRequestUnchecked(messages, model, systemPrompt) ==
    Returned([model |-> model,
              messages |-> (IF systemPrompt # "" /\ NonBlank(systemPrompt)
                            THEN <<MsgV("user", JStr(systemPrompt))>>
                            ELSE <<>>) \o messages.a,
              stream |-> FALSE])

\* sendChat up to its await: the ChatRequest handed to makeRequest, or the
\* Error thrown for a missing model
ChatRequest(messages, model, systemPrompt) ==
    IF model = "" THEN Thrown("Model name is required")
    ELSE Returned([model |-> model,
                   messages |-> (IF HasPrompt(systemPrompt)
                                 THEN <<Msg("user", systemPrompt)>>
                                 ELSE <<>>) \o messages.a,
                   stream |-> FALSE])

\* the caller's array after sendChat: `chatMessages.push(...messages)` copies
\* its elements into a new array, and sendChat assigns nothing to it
MessagesAfterSendChat(messages) == messages

\* what the backend does with a request: it answers with a body, or the
\* socket reports an error
Answer(body) == [kind |-> "body", text |-> body]
NetError == [kind |-> "error", text |-> <<>>]

\* a sendChat that reads `response?.message?.content` and swallows the parse
\* error, returning undefined where the body has no message; C33 tells it
\* from sendChatResult
sendChatLenient(resp) ==
    IF resp.kind = "error"
    THEN Thrown("Failed to get response from Ollama: Error: connect ECONNREFUSED")
    ELSE LET p == JSONparse(resp.text) IN
         IF ~p.ok THEN Returned(Undefined)
         ELSE IF p.val.t = "null"
                 \/ Get(p.val, "message").t \in {"undefined", "null"}
         THEN Returned(Undefined)
         ELSE Returned(Get(Get(p.val, "message"), "content"))

\* sendChat after its await: makeRequest parses the body, sendChat returns
\* response.message.content; every failure is rethrown wrapped
sendChatResult(resp) ==
    IF resp.kind = "error"
    THEN Thrown("Failed to get response from Ollama: Error: connect ECONNREFUSED")
    ELSE LET p == JSONparse(resp.text) IN
         IF ~p.ok
         THEN Thrown("Failed to get response from Ollama: Error: Invalid JSON response")
         ELSE IF p.val.t = "null"
                 \/ Get(p.val, "message").t \in {"undefined", "null"}
         THEN Thrown("Failed to get response from Ollama: TypeError")
         ELSE Returned(Get(Get(p.val, "message"), "content"))

\* makeRequest: the body parsed by JSON.parse, or the rejection with the
\* socket's error or with Error(`Invalid JSON response: ...`)
makeRequest(resp) ==
    IF resp.kind = "error" THEN Thrown("Error: connect ECONNREFUSED")
    ELSE LET p == JSONparse(resp.text) IN
         IF ~p.ok THEN Thrown("Error: Invalid JSON response")
         ELSE Returned(p.val)

\* `response.models?.map((model: any) => model.name) || []`: reading a
\* property of null throws a TypeError, and so does calling the `map` that a
\* value other than an array does not have
ModelNames(response) ==
    IF response.t \in {"null", "undefined"} THEN Thrown("TypeError")
    ELSE LET models == Get(response, "models") IN
         IF models.t \in {"null", "undefined"} THEN Returned(JArr(<<>>))
         ELSE IF ~IsArray(models) THEN Thrown("TypeError")
         ELSE IF \E i \in 1..Len(models.a) : models.a[i].t \in {"null", "undefined"}
         THEN Thrown("TypeError")
         ELSE Returned(JArr([i \in 1..Len(models.a) |-> Get(models.a[i], "name")]))

\* a getAvailableModels without the try, which lets the rejection and the
\* TypeError through; C15 tells it from getAvailableModels
getModelsUncaught(resp) ==
    LET r == makeRequest(resp) IN
    IF ~r.ok THEN r ELSE ModelNames(r.val)

\* getAvailableModels after its await: the names, or [] from the catch
getAvailableModels(resp) ==
    LET r == makeRequest(resp) IN
    IF ~r.ok THEN Returned(JArr(<<>>))
    ELSE LET names == ModelNames(r.val) IN
         IF ~names.ok THEN Returned(JArr(<<>>)) ELSE names

\* what getAvailableModels logs: console.error in its catch
ModelsErrorLog == [level |-> "error", text |-> "Error fetching models:"]
ModelsLog(resp) ==
    IF ~makeRequest(resp).ok \/ ~ModelNames(makeRequest(resp).val).ok
    THEN <<ModelsErrorLog>> ELSE <<>>

\* the request handed to http.request: endpoint, method and body
HttpRequest(endpoint, method, data) ==
    [endpoint |-> endpoint, method |-> method, data |-> data]

\* no export so far
NoExport == [outcome |-> "none", text |-> <<>>, notice |-> ""]

\* what a step of an export did: outcome "dialog" (the save dialog is shown),
\* "cancelled", "writing" (the write of the chosen file is started),
\* "written" or "failed"; the text written; the notice shown to the user
Exported(outcome, text, notice) == [outcome |-> outcome, text |-> text, notice |-> notice]

\* no service call in progress
SvcIdle == [pc |-> "idle", op |-> "none", w |-> 0, model |-> "", systemPrompt |-> "",
            given |-> JArr(<<>>), messages |-> JArr(<<>>), issued |-> <<>>,
            resp |-> NetError, result |-> Thrown("")]

(***************************************************************************)
(* Log                                                                     *)
(***************************************************************************)
Log(level, text) == [level |-> level, text |-> text]

\* the warning of save and load (file manager) without a workspace folder
NoWorkspaceLog == Log("warn", "No workspace open - cannot save chat history")
\* the error of the catch of saveConversationHistory (file manager)
SaveErrorLog == Log("error", "Failed, to save chat history:")
\* the error of the catch of loadConversationHistory (file manager)
LoadErrorLog == Log("error", "No existing chat history file found or error reading:")

\* what loadConversationHistory (file manager) logs at warn or error level
LoadLog(f, ws) ==
    IF ~ws THEN <<NoWorkspaceLog>>
    ELSE IF ~f.exists \/ ~JSONparse(f.text).ok \/ JSONparse(f.text).val.t = "null"
    THEN <<LoadErrorLog>>
    ELSE <<>>

\* console.error of the catch of the sendMessage case, of sendChat's catch,
\* of the importConversation catch and of the sendMessage validation
ChatErrorLog == Log("error", "Chat error:")
\* console.error of the catch of the refreshModels case
RefreshErrorLog == Log("error", "Error fetching models:")
ApiErrorLog == Log("error", "OpenWebUI API Error:")
ImportErrorLog == Log("error", "Import error:")
ExportErrorLog == Log("error", "Export error:")
EmptyMessageLog == Log("error", "Empty message received")

(***************************************************************************)
(* UI events                                                               *)
(***************************************************************************)
ReceiveMessage(w, text, chatType) ==
    [w |-> w, command |-> "receiveMessage", text |-> text,
     sender |-> "assistant", chatType |-> chatType]
ImportSuccess(w, messages) ==
    [w |-> w, command |-> "importSuccess", messages |-> messages]
ImportError(w, error) ==
    [w |-> w, command |-> "importError", error |-> error]
\* an exception that leaves the openChat command callback or a message
\* handler, whose promise rejects: nothing is posted
Raised(w, error) == [w |-> w, command |-> "raised", error |-> error]
\* what panel.webview throws once the panel is disposed
WebviewDisposed == "Error: Webview is disposed"
\* vscode.window.showErrorMessage
ErrorMessage(w, text) == [w |-> w, command |-> "showErrorMessage", text |-> text]

UpdateModels(w, models) == [w |-> w, command |-> "updateModels", models |-> models]

\* `message.chatType || "quick"`
TagOf(chatType) == IF chatType = "" THEN "quick" ELSE chatType

\* a call of persistenceManager.saveConversationHistory by a handler of
\* window w, and a call of panel.webview.postMessage that posted the event
SaveCall(w) == [call |-> "saveConversationHistory", w |-> w]
PostCall(event) == [call |-> "postMessage", event |-> event]
\* the postMessage calls that posted the events, one after the other
Posts(events) == [i \in 1..Len(events) |-> PostCall(events[i])]

(***************************************************************************)
(* Bounds and inputs                                                       *)
(***************************************************************************)
MaxCmds == 4        \* UI commands per behaviour
MaxInflight == 2    \* handlers suspended in one kind of await at one time:
                    \* chat requests, refreshes, exports, configuration dialogs
MaxConvLen == 3     \* longest conversation handed to the codec
MaxModels == 3      \* most entries in the models list of a tags response

Windows == {1, 2}
\* the windows the single-window specification opens
MainWindows == {1}

Persistences == {"file", "globalState"}

SystemPrompts == {"", " ", "Be concise"}
DefaultModel == "llama3.2"
ApiKey == "sk-key"
\* config.openwebuiUrl: a server that answers every request or reports an
\* error, and one that accepts the connection and never answers
AnsweringUrl == "http://localhost:3000"
SilentUrl == "http://localhost:3001"
UserTexts == {"", " ", "hello"}
ChatTypes == {"saved", "quick", "prompt"}

\* settings with every required value: the ChatConfig getConfig returns
Configured(openwebuiUrl, systemPrompt) ==
    [openwebuiUrl |-> openwebuiUrl, apiKey |-> ApiKey,
     defaultModel |-> DefaultModel, systemPrompt |-> systemPrompt]
\* settings of a fresh installation; also the config of a window never opened
NoConfig ==
    [openwebuiUrl |-> "", apiKey |-> "", defaultModel |-> "", systemPrompt |-> ""]
\* the settings promptForConfig asks for, in the order of its input boxes and
\* of its config.update calls, and what the user enters
ConfigKeys == <<"openwebuiUrl", "apiKey", "defaultModel">>
Entered ==
    [openwebuiUrl |-> AnsweringUrl, apiKey |-> ApiKey, defaultModel |-> DefaultModel]

\* the awaits an openChat command passes when a required setting is missing:
\* the question of ensureConfig, the three input boxes and the three
\* config.update calls of promptForConfig
AskStage == "showInformationMessage"
BoxStage(key) == "showInputBox " \o key
UpdateStage(key) == "update " \o key
DialogStages == {AskStage} \cup {BoxStage(ConfigKeys[k]) : k \in 1..3}
ConfigStages == DialogStages \cup {UpdateStage(ConfigKeys[k]) : k \in 1..3}
\* the await that follows the input box of ConfigKeys[k], and the one that
\* follows its config.update
AfterBox(k) == IF k < 3 THEN BoxStage(ConfigKeys[k + 1]) ELSE UpdateStage(ConfigKeys[1])
AfterUpdate(k) == UpdateStage(ConfigKeys[k + 1])

\* no command is suspended
NoneAsking == [s \in ConfigStages |-> 0]
\* a command goes from one await to the next, or leaves its last
Moved(a, from, to) == [a EXCEPT ![from] = @ - 1, ![to] = @ + 1]
Left(a, from) == [a EXCEPT ![from] = @ - 1]
\* the number of suspended commands
RECURSIVE Sum(_, _)
Sum(a, stages) ==
    IF stages = {} THEN 0
    ELSE LET s == CHOOSE x \in stages : TRUE IN a[s] + Sum(a, stages \ {s})

ReplyBody ==
    JSONstringify(JObj(<<Member("message", Msg("assistant", "reply")),
                         Member("done", JBool(TRUE))>>))
Responses == {Answer(ReplyBody), NetError}

PriorWithPrompt ==
    JArr(<<Msg("user", "Be concise"), Msg("user", "hello"), Msg("assistant", "reply")>>)
PriorWithoutPrompt == JArr(<<Msg("user", "hello"), Msg("assistant", "reply")>>)

\* what the workspace file may hold when the process starts: nothing, text
\* that is no JSON, an object without history, a history that is no array,
\* and histories written by earlier sessions
InitialFiles ==
    {NoFile,
     FileOf(<<LBrace>>),
     FileOf(JSONstringify(JObj(<<>>))),
     FileOf(SavedText(JStr("x"))),
     FileOf(SavedText(PriorWithPrompt)),
     FileOf(SavedText(PriorWithoutPrompt))}

\* what the globalState entry may hold when the process starts: nothing, or
\* what an earlier session stored
StoredEntries ==
    {NoFile, FileOf(SavedText(PriorWithPrompt)), FileOf(SavedText(PriorWithoutPrompt))}

\* texts a user may pick for import besides an export of the current history
ImportTexts ==
    {<<>>,
     <<LBrace>>,
     JSONstringify(JObj(<<Member("conversation", JStr("not-an-array"))>>)),
     SavedText(PriorWithoutPrompt),
     serializeConversation(JArr(<<>>)),
     serializeConversation(PriorWithoutPrompt),
     serializeConversation(PriorWithPrompt),
     serializeConversation(JArr(<<Msg("system", "obey"), JNum("42")>>))}

CodecIdle == [pc |-> "idle", from |-> "none", shape |-> "none", conv |-> Undefined,
              text |-> <<>>, result |-> Thrown("")]

\* the latest step: which command or continuation ("response", the
\* sendMessage case after its await; "writeFile" and "readFile", a save and a
\* load after theirs), of which window, with which arguments, and whether it
\* ran to its end without a caught or raised error; a sendMessage that fails
\* the validation returns at once and is recorded without arguments
Step(kind, w, chatType, text, selectedModel, ok) ==
    [kind |-> kind, w |-> w, chatType |-> chatType, text |-> text,
     selectedModel |-> selectedModel, ok |-> ok]

(***************************************************************************)
(* Window state machine                                                    *)
(***************************************************************************)
\* no window was opened yet
NoWindow ==
    /\ asking = NoneAsking
    /\ panel = [w \in Windows |-> FALSE]
    /\ open = [w \in Windows |-> FALSE]
    /\ config = [w \in Windows |-> NoConfig]
    /\ saved = [w \in Windows |-> Undefined]

\* nothing is going on: no request, no file operation, no exercise
Quiet ==
    /\ inflight = <<>>
    /\ refreshing = <<>>
    /\ exporting = <<>>
    /\ io = <<>>
    /\ emitted = <<>>
    /\ calls = <<>>
    /\ logged = <<>>
    /\ last = Step("none", 0, "", "", "", TRUE)
    /\ codec = CodecIdle
    /\ svc = SvcIdle
    /\ exported = NoExport

\* the windows ws are open, each with the settings as its config and h as
\* its history; with the file manager a window opens only when the system
\* prompt is blank (see OpenWindow)
Opened(ws, h) ==
    /\ persistence = "file" => ~HasPrompt(settings.systemPrompt)
    /\ asking = NoneAsking
    /\ panel = [w \in Windows |-> w \in ws]
    /\ open = [w \in Windows |-> w \in ws]
    /\ config = [w \in Windows |-> IF w \in ws THEN settings ELSE NoConfig]
    /\ saved = [w \in Windows |-> IF w \in ws THEN h ELSE Undefined]

Init ==
    /\ settings \in {Configured(AnsweringUrl, p) : p \in SystemPrompts}
                      \cup {NoConfig, [NoConfig EXCEPT !.systemPrompt = "Be concise"]}
    /\ persistence \in Persistences
    /\ workspace \in BOOLEAN
    /\ file \in (IF persistence = "globalState" THEN StoredEntries
                  ELSE IF workspace THEN InitialFiles ELSE {NoFile})
    /\ NoWindow
    /\ Quiet
    /\ ncmds = 0

\* getConfig: the settings hold every required value
getConfig(s) == s.openwebuiUrl # "" /\ s.apiKey # "" /\ s.defaultModel # ""

\* what promptForConfig returns once its three updates are through: the
\* values entered and an empty system prompt, whatever the settings hold
EnteredConfig == Configured(Entered.openwebuiUrl, "")

\* the seeding of activate: the history with config.systemPrompt as its first
\* message. A first element that is null, or a history that is no array (as
\* the promise of an asynchronous load is), throws a TypeError out of the
\* command callback
SeedSystemPrompt(h, systemPrompt) ==
    IF ~HasPrompt(systemPrompt) THEN Returned(h)
    ELSE IF ~IsArray(h)
         THEN Thrown("TypeError: savedChatHistory.unshift is not a function")
    ELSE IF Len(h.a) > 0 /\ h.a[1].t \in {"null", "undefined"}
         THEN Thrown("TypeError: Cannot read properties of null")
    ELSE IF /\ Len(h.a) > 0
            /\ Get(h.a[1], "role") = JStr("user")
            /\ Get(h.a[1], "content") = JStr(systemPrompt)
         THEN Returned(h)
    ELSE Returned(JArr(<<Msg("user", systemPrompt)>> \o h.a))

\* what the load delivers once it has settled: the value the globalState
\* manager returns, or the value the promise of the file manager is fulfilled
\* with
LoadAwaited(f, ws) ==
    IF persistence = "globalState" THEN globalStateLoad(f)
    ELSE loadConversationHistory(f, ws)

\* what `persistenceManager.loadConversationHistory()` gives savedChatHistory
\* at open, where it is not awaited: the stored history (globalState
\* manager), or the promise of the load (file manager)
LoadAtOpen(f, ws) ==
    IF persistence = "globalState" THEN globalStateLoad(f) ELSE JPromise

\* the openChat command once ensureConfig has returned the config c: create
\* the panel of window w, load, seed, register the message handler. A window
\* names one closure of the command: it is opened anew once no handler of
\* the closure it named awaits a call whose continuation posts to the panel
OpenWindow(w, c) ==
    /\ ~panel[w]
    /\ \A i \in 1..Len(inflight) : inflight[i].w # w
    /\ \A i \in 1..Len(refreshing) : refreshing[i].w # w
    /\ LET h == LoadAtOpen(file, workspace)
           s == SeedSystemPrompt(h, c.systemPrompt)
       IN  /\ panel' = [panel EXCEPT ![w] = TRUE]
           /\ config' = [config EXCEPT ![w] = c]
           /\ io' = IF persistence = "file" /\ workspace
                    THEN Append(io, FileOp("read", w, <<>>))
                    ELSE io
           /\ logged' = IF persistence = "file" /\ ~workspace
                        THEN <<NoWorkspaceLog>> ELSE <<>>
           /\ saved' = [saved EXCEPT ![w] = IF s.ok THEN s.val ELSE h]
           /\ open' = [open EXCEPT ![w] = s.ok]
           /\ emitted' = IF s.ok THEN <<>> ELSE <<Raised(w, s.err)>>
           /\ calls' = <<>>
           /\ last' = Step("openChat", w, "", "", "", s.ok)

\* the openChat command with every required setting present: ensureConfig
\* returns the settings without a dialog and the window opens
OpenChat(w) ==
    /\ getConfig(settings)
    /\ ncmds < MaxCmds
    /\ ncmds' = ncmds + 1
    /\ OpenWindow(w, settings)
    /\ UNCHANGED <<settings, persistence, workspace, file, asking, inflight,
                   codec, svc, refreshing, exporting, exported>>

\* a step of a suspended openChat command that shows the next dialog or
\* starts the next update: nothing is posted, logged or saved
AskingStep ==
    /\ emitted' = <<>>
    /\ calls' = <<>>
    /\ logged' = <<>>
    /\ last' = Step("ensureConfig", 0, "", "", "", TRUE)
    /\ UNCHANGED <<persistence, workspace, file, io, panel, open, config, saved,
                   inflight, codec, svc, refreshing, exporting, exported>>

\* the openChat command with a required setting missing: ensureConfig asks
\* whether to configure and the command is suspended, while other commands
\* run
OpenChatAsks ==
    /\ ~getConfig(settings)
    /\ ncmds < MaxCmds
    /\ Sum(asking, ConfigStages) < MaxInflight
    /\ ncmds' = ncmds + 1
    /\ asking' = [asking EXCEPT ![AskStage] = @ + 1]
    /\ AskingStep
    /\ UNCHANGED settings

\* the question of ensureConfig is answered with "Configure": promptForConfig
\* shows its first input box
ConfigureChosen ==
    /\ asking[AskStage] > 0
    /\ asking' = Moved(asking, AskStage, BoxStage(ConfigKeys[1]))
    /\ AskingStep
    /\ UNCHANGED <<settings, ncmds>>

\* the input box of ConfigKeys[k] is answered with a value: promptForConfig
\* shows the next box, or, after the last, calls the first config.update
InputBoxFilled(k) ==
    /\ asking[BoxStage(ConfigKeys[k])] > 0
    /\ asking' = Moved(asking, BoxStage(ConfigKeys[k]), AfterBox(k))
    /\ AskingStep
    /\ UNCHANGED <<settings, ncmds>>

\* the config.update of ConfigKeys[k], the first or the second, is through:
\* the settings hold the value entered, and promptForConfig calls the next
\* update
ConfigUpdated(k) ==
    /\ k \in 1..2
    /\ asking[UpdateStage(ConfigKeys[k])] > 0
    /\ asking' = Moved(asking, UpdateStage(ConfigKeys[k]), AfterUpdate(k))
    /\ settings' = [settings EXCEPT ![ConfigKeys[k]] = Entered[ConfigKeys[k]]]
    /\ AskingStep
    /\ UNCHANGED ncmds

\* the last config.update is through: promptForConfig returns the values
\* entered with an empty system prompt, and the command opens window w with
\* them. w names the window the command is to open, which is no window yet
ConfigAnswered(w) ==
    /\ asking[UpdateStage(ConfigKeys[3])] > 0
    /\ asking' = Left(asking, UpdateStage(ConfigKeys[3]))
    /\ settings' = [settings EXCEPT ![ConfigKeys[3]] = Entered[ConfigKeys[3]]]
    /\ OpenWindow(w, EnteredConfig)
    /\ UNCHANGED <<persistence, workspace, file, inflight, ncmds, codec, svc, refreshing, exporting, exported>>

\* the question is answered with "Cancel" or dismissed, or an input box is
\* left empty: ensureConfig returns null, the command shows the error
\* message and returns. w names the window the command was to open
ConfigCancelled(w, stage) ==
    /\ stage \in DialogStages
    /\ asking[stage] > 0
    /\ ~panel[w]
    /\ asking' = Left(asking, stage)
    /\ emitted' = <<ErrorMessage(w, "OpenWebUI Chat configuration cancelled.")>>
    /\ calls' = <<>>
    /\ logged' = <<>>
    /\ last' = Step("openChat", w, "", "", "", FALSE)
    /\ UNCHANGED <<settings, persistence, workspace, file, io, panel, open, config,
                   saved, inflight, ncmds, codec, svc, refreshing, exporting, exported>>

\* the panel is disposed. Nothing listens: the closure keeps its history and
\* config, and a handler that awaits resumes and finds the panel disposed
CloseWindow(w) ==
    /\ panel[w]
    /\ ncmds < MaxCmds
    /\ ncmds' = ncmds + 1
    /\ panel' = [panel EXCEPT ![w] = FALSE]
    /\ open' = [open EXCEPT ![w] = FALSE]
    /\ emitted' = <<>>
    /\ calls' = <<>>
    /\ logged' = <<>>
    /\ last' = Step("close", w, "", "", "", TRUE)
    /\ UNCHANGED <<settings, persistence, workspace, file, io, asking, config, saved,
                   inflight, codec, svc, refreshing, exporting, exported>>

\* a save that appends the history to the one the file holds; C21 tells it
\* from saveConversationHistory
SaveMerges(w, convHistory) ==
    LET h == IF IsArray(loadConversationHistory(file, workspace)) /\ IsArray(convHistory)
             THEN JArr(loadConversationHistory(file, workspace).a \o convHistory.a)
             ELSE convHistory
    IN  IF persistence = "globalState"
        THEN /\ file' = FileOf(SavedText(h))
             /\ UNCHANGED io
        ELSE IF ~workspace
        THEN UNCHANGED <<file, io>>
        ELSE /\ io' = Append(io, FileOp("write", w, SavedText(h)))
             /\ UNCHANGED file

\* what a call of saveConversationHistory logs before it returns to the
\* handler: the warning of the file manager without a workspace folder
SaveLog == IF persistence = "file" /\ ~workspace THEN <<NoWorkspaceLog>> ELSE <<>>

\* `persistenceManager.saveConversationHistory(convHistory)`, which no caller
\* awaits. The globalState manager stores the entry at once. The file manager
\* warns (SaveLog) and returns without a workspace folder; otherwise it
\* prints the history and starts the writeFile, which settles in a later step
saveConversationHistory(w, convHistory) ==
    IF persistence = "globalState"
    THEN /\ file' = FileOf(SavedText(convHistory))
         /\ UNCHANGED io
    ELSE IF ~workspace
    THEN UNCHANGED <<file, io>>
    ELSE /\ io' = Append(io, FileOp("write", w, SavedText(convHistory)))
         /\ UNCHANGED file

RemoveAt(seq, i) == SubSeq(seq, 1, i - 1) \o SubSeq(seq, i + 1, Len(seq))

\* a save whose failed write takes the last message back out of the history
\* of its window; C27 tells it from FileOpSettles
FileOpRollsBack(i, ok) ==
    /\ i \in 1..Len(io)
    /\ LET op == io[i] IN
       /\ io' = RemoveAt(io, i)
       /\ last' = Step(IF op.kind = "write" THEN "writeFile" ELSE "readFile",
                       op.w, "", "", "", ok)
       /\ IF op.kind = "write"
          THEN /\ file' = IF ok THEN FileOf(op.text) ELSE file
               /\ logged' = IF ok THEN <<>> ELSE <<SaveErrorLog>>
               /\ saved' = IF ~ok /\ IsArray(saved[op.w]) /\ Len(saved[op.w].a) > 0
                           THEN [saved EXCEPT ![op.w] =
                                    JArr(SubSeq(saved[op.w].a, 1, Len(saved[op.w].a) - 1))]
                           ELSE saved
          ELSE /\ logged' = IF ok THEN LoadLog(file, TRUE) ELSE <<LoadErrorLog>>
               /\ UNCHANGED <<file, saved>>
    /\ emitted' = <<>>
    /\ calls' = <<>>
    /\ UNCHANGED <<settings, persistence, workspace, asking, panel, open, config,
                   inflight, ncmds, codec, svc, refreshing, exporting, exported>>

\* a call of vscode.workspace.fs settles, in any order with the others. A
\* writeFile that fulfils has replaced the file by the text it was called
\* with; one that rejects is logged by the catch of the save. A readFile
\* resumes a load, whose result nobody reads: the load logs an error when the
\* read rejects or the text does not parse
FileOpSettles(i, ok) ==
    /\ i \in 1..Len(io)
    /\ LET op == io[i] IN
       /\ io' = RemoveAt(io, i)
       /\ last' = Step(IF op.kind = "write" THEN "writeFile" ELSE "readFile",
                       op.w, "", "", "", ok)
       /\ IF op.kind = "write"
          THEN /\ file' = IF ok THEN FileOf(op.text) ELSE file
               /\ logged' = IF ok THEN <<>> ELSE <<SaveErrorLog>>
               /\ UNCHANGED saved
          ELSE /\ logged' = IF ok THEN LoadLog(file, TRUE) ELSE <<LoadErrorLog>>
               /\ UNCHANGED <<file, saved>>
    /\ emitted' = <<>>
    /\ calls' = <<>>
    /\ UNCHANGED <<settings, persistence, workspace, asking, panel, open, config,
                   inflight, ncmds, codec, svc, refreshing, exporting, exported>>

Pending(w, chatType, request) == [w |-> w, chatType |-> chatType, request |-> request]

\* a failure caught by the try of the sendMessage case
SendError(w, chatType, err) ==
    ReceiveMessage(w, JStr("Error: " \o err), TagOf(chatType))

\* a saved send that leaves out a user turn equal to the last message of the
\* history; C32 tells it from SendSaved
SendSavedDeduplicates(w, text) ==
    IF ~IsArray(saved[w])
    THEN /\ emitted' = <<SendError(w, "saved", "TypeError: savedChatHistory.push is not a function")>>
         /\ logged' = <<ChatErrorLog>>
         /\ UNCHANGED <<saved, inflight>>
    ELSE LET h == IF Len(saved[w].a) > 0 /\ saved[w].a[Len(saved[w].a)] = Msg("user", text)
                  THEN saved[w]
                  ELSE push(saved[w], Msg("user", text))
             q == ChatRequest(h, config[w].defaultModel, "")
         IN  /\ saved' = [saved EXCEPT ![w] = h]
             /\ IF q.ok
                THEN /\ inflight' = Append(inflight, Pending(w, "saved", q.val))
                     /\ emitted' = <<>>
                     /\ logged' = <<>>
                ELSE /\ emitted' = <<SendError(w, "saved", "Error: " \o q.err)>>
                     /\ logged' = <<ChatErrorLog>>
                     /\ UNCHANGED inflight

\* sendMessage, chatType "saved", up to the await of sendChat. A history that
\* is no array has no push: the TypeError is caught and posted
SendSaved(w, text) ==
    IF ~IsArray(saved[w])
    THEN /\ emitted' = <<SendError(w, "saved", "TypeError: savedChatHistory.push is not a function")>>
         /\ logged' = <<ChatErrorLog>>
         /\ UNCHANGED <<saved, inflight>>
    ELSE LET h == push(saved[w], Msg("user", text))
             q == ChatRequest(h, config[w].defaultModel, "")
         IN  /\ saved' = [saved EXCEPT ![w] = h]
             /\ IF q.ok
                THEN /\ inflight' = Append(inflight, Pending(w, "saved", q.val))
                     /\ emitted' = <<>>
                     /\ logged' = <<>>
                ELSE /\ emitted' = <<SendError(w, "saved", "Error: " \o q.err)>>
                     /\ logged' = <<ChatErrorLog>>
                     /\ UNCHANGED inflight

\* a stateless send that records the user turn in the saved history; C5
\* tells it from SendStateless
SendStatelessRecorded(w, text, chatType) ==
    LET q == ChatRequest(JArr(<<Msg("user", text)>>), config[w].defaultModel,
                         config[w].systemPrompt)
    IN  /\ IF q.ok
           THEN /\ inflight' = Append(inflight, Pending(w, chatType, q.val))
                /\ emitted' = <<>>
                /\ logged' = <<>>
           ELSE /\ emitted' = <<SendError(w, chatType, "Error: " \o q.err)>>
                /\ logged' = <<ChatErrorLog>>
                /\ UNCHANGED inflight
        /\ saved' = [saved EXCEPT ![w] = JArr(Append(Elems(saved[w]), Msg("user", text)))]

\* a stateless send that puts the window's saved history in front of the
\* message; C31 tells it from SendStateless
SendStatelessWithHistory(w, text, chatType) ==
    LET q == ChatRequest(JArr(Elems(saved[w]) \o <<Msg("user", text)>>),
                         config[w].defaultModel, config[w].systemPrompt)
    IN  /\ IF q.ok
           THEN /\ inflight' = Append(inflight, Pending(w, chatType, q.val))
                /\ emitted' = <<>>
                /\ logged' = <<>>
           ELSE /\ emitted' = <<SendError(w, chatType, "Error: " \o q.err)>>
                /\ logged' = <<ChatErrorLog>>
                /\ UNCHANGED inflight
        /\ UNCHANGED saved

\* sendMessage, any chatType but "saved", up to the await of sendChat: the
\* single message, with config.systemPrompt handed to sendChat; nothing is
\* kept
SendStateless(w, text, chatType) ==
    LET q == ChatRequest(JArr(<<Msg("user", text)>>), config[w].defaultModel,
                         config[w].systemPrompt)
    IN  /\ IF q.ok
           THEN /\ inflight' = Append(inflight, Pending(w, chatType, q.val))
                /\ emitted' = <<>>
                /\ logged' = <<>>
           ELSE /\ emitted' = <<SendError(w, chatType, "Error: " \o q.err)>>
                /\ logged' = <<ChatErrorLog>>
                /\ UNCHANGED inflight
        /\ UNCHANGED saved

\* a validation without the trim, which lets a whitespace-only text through;
\* C18 tells it from EmptyMessage
EmptyWithoutTrim(text) == text = ""

\* `!message.text || message.text.trim() === ""`
EmptyMessage(text) == text = "" \/ ~NonBlank(text)

\* a handler that drops a send arriving while a request of its window is in
\* flight; C22 tells it from SendMessage
SendMessageExclusive(w, text, chatType, selectedModel) ==
    /\ open[w]
    /\ ncmds < MaxCmds
    /\ ncmds' = ncmds + 1
    /\ IF EmptyMessage(text)
       THEN /\ emitted' = <<>>
            /\ logged' = <<EmptyMessageLog>>
            /\ UNCHANGED <<saved, inflight>>
       ELSE IF \E i \in 1..Len(inflight) : inflight[i].w = w
       THEN /\ emitted' = <<>>
            /\ logged' = <<>>
            /\ UNCHANGED <<saved, inflight>>
       ELSE /\ Len(inflight) < MaxInflight
            /\ IF chatType = "saved" THEN SendSaved(w, text)
               ELSE SendStateless(w, text, chatType)
    /\ calls' = Posts(emitted')
    /\ last' = IF EmptyMessage(text)
               THEN Step("sendMessage", w, "", "", "", FALSE)
               ELSE Step("sendMessage", w, chatType, text, selectedModel,
                         emitted' = <<>>)
    /\ UNCHANGED <<settings, persistence, workspace, file, io, asking, panel, open, config,
                   codec, svc, refreshing, exporting, exported>>

\* the sendMessage case up to its await; the step ran without an error when
\* the catch posted none (the panel exists: the message came from its webview)
SendMessage(w, text, chatType, selectedModel) ==
    /\ open[w]
    /\ ncmds < MaxCmds
    /\ ncmds' = ncmds + 1
    /\ IF EmptyMessage(text)
       THEN /\ emitted' = <<>>
            /\ logged' = <<EmptyMessageLog>>
            /\ UNCHANGED <<saved, inflight>>
       ELSE /\ Len(inflight) < MaxInflight
            /\ IF chatType = "saved" THEN SendSaved(w, text)
               ELSE SendStateless(w, text, chatType)
    /\ calls' = Posts(emitted')
    /\ last' = IF EmptyMessage(text)
               THEN Step("sendMessage", w, "", "", "", FALSE)
               ELSE Step("sendMessage", w, chatType, text, selectedModel,
                         emitted' = <<>>)
    /\ UNCHANGED <<settings, persistence, workspace, file, io, asking, panel, open, config,
                   codec, svc, refreshing, exporting, exported>>

\* a continuation that saves first and pushes the reply afterwards, so that
\* the save misses the reply; C28 tells it from StoreReplySaved
StoreReplySavesFirst(w, response) ==
    /\ saveConversationHistory(w, saved[w])
    /\ saved' = [saved EXCEPT ![w] = push(saved[w], MsgV("assistant", response))]

\* a continuation that drops a reply arriving when the history already ends
\* with an assistant turn, as the second reply of two overlapping sends
\* does; C37 tells it from StoreReplySaved
StoreReplySkipsSecond(w, response) ==
    LET n == Len(saved[w].a)
        h == IF n > 0 /\ Get(saved[w].a[n], "role") = JStr("assistant")
             THEN saved[w]
             ELSE push(saved[w], MsgV("assistant", response))
    IN  /\ saved' = [saved EXCEPT ![w] = h]
        /\ saveConversationHistory(w, h)

\* chatType "saved" after the await: push the reply, then auto-save
StoreReplySaved(w, response) ==
    LET h == push(saved[w], MsgV("assistant", response)) IN
    /\ saved' = [saved EXCEPT ![w] = h]
    /\ saveConversationHistory(w, h)

\* a catch that takes the user turn of the failed exchange back out of the
\* saved history; C6 tells it from CatchAfterAwait
CatchRollsBack(w, chatType, err) ==
    /\ emitted' = IF panel[w] THEN <<SendError(w, chatType, err)>>
                  ELSE <<Raised(w, WebviewDisposed)>>
    /\ calls' = IF panel[w] THEN Posts(emitted') ELSE <<>>
    /\ logged' = <<ApiErrorLog, ChatErrorLog>>
    /\ saved' = IF chatType = "saved" /\ IsArray(saved[w])
                THEN [saved EXCEPT ![w] =
                        JArr(SubSeq(saved[w].a, 1, Len(saved[w].a) - 1))]
                ELSE saved
    /\ UNCHANGED <<file, io>>

\* the catch of the sendMessage case once sendChat has rejected, which
\* sendChat has logged: the error is logged and posted as an assistant
\* message, the history and the file stay as they are. Once the panel is
\* disposed the postMessage of the catch throws: nothing is posted and the
\* promise of the handler rejects
CatchAfterAwait(w, chatType, err) ==
    /\ emitted' = IF panel[w] THEN <<SendError(w, chatType, err)>>
                  ELSE <<Raised(w, WebviewDisposed)>>
    /\ calls' = IF panel[w] THEN Posts(emitted') ELSE <<>>
    /\ logged' = <<ApiErrorLog, ChatErrorLog>>
    /\ UNCHANGED <<saved, file, io>>

\* a continuation that posts the reply before it stores and saves it; C28
\* tells it from ReplyArrived
ReplyPostedFirst(w, chatType, response) ==
    /\ IF chatType = "saved" THEN StoreReplySaved(w, response)
       ELSE UNCHANGED <<saved, file, io>>
    /\ emitted' = IF panel[w] THEN <<ReceiveMessage(w, response, TagOf(chatType))>>
                  ELSE <<Raised(w, WebviewDisposed)>>
    /\ calls' = (IF panel[w] THEN Posts(emitted') ELSE <<>>)
                   \o (IF chatType = "saved" THEN <<SaveCall(w)>> ELSE <<>>)
    /\ logged' = (IF chatType = "saved" THEN SaveLog ELSE <<>>)
                    \o (IF panel[w] THEN <<>> ELSE <<ChatErrorLog>>)

\* the sendMessage case once sendChat has returned the reply: for chatType
\* "saved" the reply is pushed and the history saved; then the reply is
\* posted. Once the panel is disposed that postMessage throws, after the
\* push and the save: the catch logs the error, its own postMessage throws
\* too, nothing is posted and the promise of the handler rejects
ReplyArrived(w, chatType, response) ==
    /\ IF chatType = "saved" THEN StoreReplySaved(w, response)
       ELSE UNCHANGED <<saved, file, io>>
    /\ emitted' = IF panel[w] THEN <<ReceiveMessage(w, response, TagOf(chatType))>>
                  ELSE <<Raised(w, WebviewDisposed)>>
    /\ calls' = (IF chatType = "saved" THEN <<SaveCall(w)>> ELSE <<>>)
                   \o (IF panel[w] THEN Posts(emitted') ELSE <<>>)
    /\ logged' = (IF chatType = "saved" THEN SaveLog ELSE <<>>)
                    \o (IF panel[w] THEN <<>> ELSE <<ChatErrorLog>>)

\* the sendMessage case from its await on, for the request at position i.
\* It runs whether or not the panel is still there, and runs to its end
\* when sendChat returned a reply and the panel took it
Complete(i, resp) ==
    /\ i \in 1..Len(inflight)
    /\ config[inflight[i].w].openwebuiUrl # SilentUrl
    /\ LET r == inflight[i]
           res == sendChatResult(resp)
       IN  /\ inflight' = RemoveAt(inflight, i)
           /\ last' = Step("response", r.w, r.chatType, "", "", res.ok /\ panel[r.w])
           /\ IF res.ok
              THEN ReplyArrived(r.w, r.chatType, res.val)
              ELSE CatchAfterAwait(r.w, r.chatType, "Error: " \o res.err)
    /\ UNCHANGED <<settings, persistence, workspace, asking, panel, open, config, ncmds,
                   codec, svc, refreshing, exporting, exported>>

\* the history clearSavedChat leaves
ClearedHistory(systemPrompt) ==
    IF HasPrompt(systemPrompt) THEN JArr(<<Msg("user", systemPrompt)>>) ELSE JArr(<<>>)

\* a clear without the reset `savedChatHistory = []`, which pushes the system
\* prompt onto the history it finds; C12 tells it from ClearSavedChat
ClearWithoutReset(w, chatType) ==
    /\ open[w]
    /\ ncmds < MaxCmds
    /\ ncmds' = ncmds + 1
    /\ saved' = [saved EXCEPT ![w] =
                    IF HasPrompt(config[w].systemPrompt) /\ IsArray(saved[w])
                    THEN push(saved[w], Msg("user", config[w].systemPrompt))
                    ELSE saved[w]]
    /\ saveConversationHistory(w, saved'[w])
    /\ logged' = SaveLog
    /\ emitted' = <<>>
    /\ calls' = <<SaveCall(w)>>
    /\ last' = Step("clearSavedChat", w, chatType, "", "", TRUE)
    /\ UNCHANGED <<settings, persistence, workspace, asking, panel, open, config, inflight,
                   codec, svc, refreshing, exporting, exported>>

\* the clearSavedChat case: a new array, the system prompt, the save; the
\* chatType the webview sends with the command is not read
ClearSavedChat(w, chatType) ==
    /\ open[w]
    /\ ncmds < MaxCmds
    /\ ncmds' = ncmds + 1
    /\ saved' = [saved EXCEPT ![w] = ClearedHistory(config[w].systemPrompt)]
    /\ saveConversationHistory(w, saved'[w])
    /\ logged' = SaveLog
    /\ emitted' = <<>>
    /\ calls' = <<SaveCall(w)>>
    /\ last' = Step("clearSavedChat", w, chatType, "", "", TRUE)
    /\ UNCHANGED <<settings, persistence, workspace, asking, panel, open, config, inflight,
                   codec, svc, refreshing, exporting, exported>>

\* an import that resets the history before it reads the data, so that a
\* failed import leaves it empty; C11 tells it from ImportConversation
ImportResetsFirst(w, jsonData) ==
    /\ open[w]
    /\ ncmds < MaxCmds
    /\ ncmds' = ncmds + 1
    /\ LET d == IF jsonData = <<>> THEN Thrown("No data provided for import")
                ELSE deserializeConversation(jsonData)
       IN  /\ last' = Step("importConversation", w, "", "", "", d.ok)
           /\ IF d.ok
              THEN /\ saved' = [saved EXCEPT ![w] = d.val]
                   /\ saveConversationHistory(w, d.val)
                   /\ logged' = SaveLog
                   /\ emitted' = <<ImportSuccess(w, d.val)>>
                   /\ calls' = <<SaveCall(w)>> \o Posts(emitted')
              ELSE /\ emitted' = <<ImportError(w, "Failed to import conversation: Error: " \o d.err)>>
                   /\ calls' = Posts(emitted')
                   /\ logged' = <<ImportErrorLog>>
                   /\ saved' = [saved EXCEPT ![w] = JArr(<<>>)]
                   /\ UNCHANGED <<file, io>>
    /\ UNCHANGED <<settings, persistence, workspace, asking, panel, open, config, inflight,
                   codec, svc, refreshing, exporting, exported>>

\* an import that appends the imported messages to the history it finds;
\* C29 tells it from ImportConversation
ImportAppends(w, jsonData) ==
    /\ open[w]
    /\ ncmds < MaxCmds
    /\ ncmds' = ncmds + 1
    /\ LET d == IF jsonData = <<>> THEN Thrown("No data provided for import")
                ELSE deserializeConversation(jsonData)
           h == IF d.ok THEN JArr(Elems(saved[w]) \o d.val.a) ELSE d.val
       IN  /\ last' = Step("importConversation", w, "", "", "", d.ok)
           /\ IF d.ok
              THEN /\ saved' = [saved EXCEPT ![w] = h]
                   /\ saveConversationHistory(w, h)
                   /\ logged' = SaveLog
                   /\ emitted' = <<ImportSuccess(w, h)>>
                   /\ calls' = <<SaveCall(w)>> \o Posts(emitted')
              ELSE /\ emitted' = <<ImportError(w, "Failed to import conversation: Error: " \o d.err)>>
                   /\ calls' = Posts(emitted')
                   /\ logged' = <<ImportErrorLog>>
                   /\ UNCHANGED <<saved, file, io>>
    /\ UNCHANGED <<settings, persistence, workspace, asking, panel, open, config, inflight,
                   codec, svc, refreshing, exporting, exported>>

\* the importConversation case; jsonData = <<>> is the absent or empty
\* string
ImportConversation(w, jsonData) ==
    /\ open[w]
    /\ ncmds < MaxCmds
    /\ ncmds' = ncmds + 1
    /\ LET d == IF jsonData = <<>> THEN Thrown("No data provided for import")
                ELSE deserializeConversation(jsonData)
       IN  /\ last' = Step("importConversation", w, "", "", "", d.ok)
           /\ IF d.ok
              THEN /\ saved' = [saved EXCEPT ![w] = d.val]
                   /\ saveConversationHistory(w, d.val)
                   /\ logged' = SaveLog
                   /\ emitted' = <<ImportSuccess(w, d.val)>>
                   /\ calls' = <<SaveCall(w)>> \o Posts(emitted')
              ELSE /\ emitted' = <<ImportError(w, "Failed to import conversation: Error: " \o d.err)>>
                   /\ calls' = Posts(emitted')
                   /\ logged' = <<ImportErrorLog>>
                   /\ UNCHANGED <<saved, file, io>>
    /\ UNCHANGED <<settings, persistence, workspace, asking, panel, open, config, inflight,
                   codec, svc, refreshing, exporting, exported>>





\* the exportConversation case up to the await of showSaveDialog:
\* serializeConversation(savedChatHistory) is taken when the command arrives;
\* the chatType the webview sends is not read
ExportConversation(w, chatType) ==
    /\ open[w]
    /\ ncmds < MaxCmds
    /\ Len(exporting) < MaxInflight
    /\ ncmds' = ncmds + 1
    /\ exporting' = Append(exporting, [w |-> w, chatType |-> chatType,
                                       text |-> serializeConversation(saved[w]),
                                       stage |-> "showSaveDialog"])
    /\ exported' = Exported("dialog", <<>>, "")
    /\ last' = Step("exportConversation", w, chatType, "", "", TRUE)
    /\ emitted' = <<>>
    /\ calls' = <<>>
    /\ logged' = <<>>
    /\ UNCHANGED <<settings, persistence, workspace, file, io, asking, panel, open, config,
                   saved, inflight, codec, svc, refreshing>>

\* the save dialog of the export at position i is answered: with a file
\* chosen the writeFile of the text is started, without one the export ends
ExportDialogAnswered(i, chosen) ==
    /\ i \in 1..Len(exporting)
    /\ exporting[i].stage = "showSaveDialog"
    /\ exporting' = IF chosen THEN [exporting EXCEPT ![i].stage = "writeFile"]
                    ELSE RemoveAt(exporting, i)
    /\ exported' = Exported(IF chosen THEN "writing" ELSE "cancelled", <<>>, "")
    /\ last' = Step("exportConversation", exporting[i].w, exporting[i].chatType,
                    "", "", TRUE)
    /\ emitted' = <<>>
    /\ calls' = <<>>
    /\ logged' = <<>>
    /\ UNCHANGED <<settings, persistence, workspace, file, io, asking, panel, open, config,
                   saved, inflight, ncmds, codec, svc, refreshing>>

\* an export that empties the history of its window once the file is
\* written; C25 tells it from ExportWriteSettles
ExportWriteThenClear(i, ok) ==
    /\ i \in 1..Len(exporting)
    /\ exporting[i].stage = "writeFile"
    /\ exporting' = RemoveAt(exporting, i)
    /\ exported' = IF ok THEN Exported("written", exporting[i].text, "Conversation exported to")
                   ELSE Exported("failed", <<>>, "Failed to export conversation:")
    /\ last' = Step("exportConversation", exporting[i].w, exporting[i].chatType,
                    "", "", ok)
    /\ emitted' = <<>>
    /\ calls' = <<>>
    /\ logged' = IF ok THEN <<>> ELSE <<ExportErrorLog>>
    /\ saved' = [saved EXCEPT ![exporting[i].w] = IF ok THEN JArr(<<>>) ELSE @]
    /\ UNCHANGED <<settings, persistence, workspace, file, io, asking, panel, open, config,
                   inflight, ncmds, codec, svc, refreshing>>

\* the writeFile of the export at position i settles: fulfilled, the user
\* is told where the text went; rejected, the catch logs the error and shows
\* it
ExportWriteSettles(i, ok) ==
    /\ i \in 1..Len(exporting)
    /\ exporting[i].stage = "writeFile"
    /\ exporting' = RemoveAt(exporting, i)
    /\ exported' = IF ok THEN Exported("written", exporting[i].text, "Conversation exported to")
                   ELSE Exported("failed", <<>>, "Failed to export conversation:")
    /\ last' = Step("exportConversation", exporting[i].w, exporting[i].chatType,
                    "", "", ok)
    /\ emitted' = <<>>
    /\ calls' = <<>>
    /\ logged' = IF ok THEN <<>> ELSE <<ExportErrorLog>>
    /\ UNCHANGED <<settings, persistence, workspace, file, io, asking, panel, open, config,
                   saved, inflight, ncmds, codec, svc, refreshing>>

\* some step of a suspended export
SomeExportStep ==
    \/ \E i \in 1..MaxInflight, chosen \in BOOLEAN : ExportDialogAnswered(i, chosen)
    \/ \E i \in 1..MaxInflight, ok \in BOOLEAN : ExportWriteSettles(i, ok)

\* an export of the window's history, as a user may feed it back to import
ExportOf(w) ==
    IF IsArray(saved[w]) THEN {serializeConversation(saved[w])} ELSE {}

\* some call of vscode.workspace.fs settles
SomeFileOpSettles == \E i \in 1..Len(io), ok \in BOOLEAN : FileOpSettles(i, ok)

\* entries of a models list: two named models, one without a name, null
ModelEntries ==
    {JObj(<<Member("name", JStr("llama3.2"))>>),
     JObj(<<Member("name", JStr("mistral"))>>),
     JObj(<<Member("size", JNum("7"))>>),
     JNull}
ModelLists == UNION {[1..n -> ModelEntries] : n \in 0..MaxModels}

\* what the tags endpoint may answer with
TagsResponses ==
    {Answer(JSONstringify(JObj(<<Member("models", JArr(l))>>))) : l \in ModelLists}
    \cup {NetError,
          Answer(<<LBrace>>),
          Answer(JSONstringify(JNull)),
          Answer(JSONstringify(JArr(<<>>))),
          Answer(JSONstringify(JObj(<<>>))),
          Answer(JSONstringify(JObj(<<Member("models", JNull)>>))),
          Answer(JSONstringify(JObj(<<Member("models", JStr("x"))>>))),
          Answer(JSONstringify(JObj(<<Member("models", JObj(<<>>))>>)))}

\* what the tags endpoint answers in the runs of the whole handler: a list of
\* two models, or the socket's error
MainTagsResponses ==
    {Answer(JSONstringify(JObj(<<Member("models",
        JArr(<<JObj(<<Member("name", JStr("llama3.2"))>>),
               JObj(<<Member("name", JStr("mistral"))>>)>>))>>))),
     NetError}

\* the refreshModels case up to the await of getAvailableModels, which has
\* issued its request; nothing in the handler keeps a second refresh from
\* starting while the first awaits
RefreshModels(w) ==
    /\ open[w]
    /\ ncmds < MaxCmds
    /\ Len(refreshing) < MaxInflight
    /\ ncmds' = ncmds + 1
    /\ refreshing' = Append(refreshing,
                            [w |-> w,
                             request |-> HttpRequest("/ollama/api/tags", "GET", <<>>)])
    /\ emitted' = <<>>
    /\ calls' = <<>>
    /\ logged' = <<>>
    /\ last' = Step("refreshModels", w, "", "", "", TRUE)
    /\ UNCHANGED <<settings, persistence, workspace, file, io, asking, panel, open, config,
                   saved, inflight, codec, svc, exporting, exported>>

\* the refreshModels case from its await on, for the refresh at position i:
\* getAvailableModels returns the names or [], and the handler posts them as
\* updateModels. Once the panel is disposed that postMessage throws: the
\* catch logs the error, its own postMessage throws too, nothing is posted
\* and the promise of the handler rejects
ModelsAnswered(i, resp) ==
    /\ i \in 1..Len(refreshing)
    /\ config[refreshing[i].w].openwebuiUrl # SilentUrl
    /\ resp \in TagsResponses
    /\ LET w == refreshing[i].w IN
       /\ refreshing' = RemoveAt(refreshing, i)
       /\ emitted' = IF panel[w] THEN <<UpdateModels(w, getAvailableModels(resp).val)>>
                     ELSE <<Raised(w, WebviewDisposed)>>
       /\ calls' = IF panel[w] THEN Posts(emitted') ELSE <<>>
       /\ logged' = ModelsLog(resp) \o (IF panel[w] THEN <<>> ELSE <<RefreshErrorLog>>)
       /\ last' = Step("models", w, "", "", "", panel[w])
    /\ UNCHANGED <<settings, persistence, workspace, file, io, asking, panel, open, config,
                   saved, inflight, ncmds, codec, svc, exporting, exported>>

\* the texts picked for import in the runs of the whole handler, besides an
\* export of the current history: an export of an earlier conversation, and
\* a text that is no JSON
MainImports == {serializeConversation(PriorWithoutPrompt), <<LBrace>>}

\* the chatType the webview sends with exportConversation
ExportTypes == {"saved", "quick"}

\* clearConversationHistory of the globalState manager: the stored entry is
\* removed; the histories the windows hold stay. No handler calls it
clearConversationHistory ==
    /\ persistence = "globalState"
    /\ ncmds < MaxCmds
    /\ ncmds' = ncmds + 1
    /\ file' = NoFile
    /\ emitted' = <<>>
    /\ calls' = <<>>
    /\ logged' = <<>>
    /\ last' = Step("clearConversationHistory", 0, "", "", "", TRUE)
    /\ UNCHANGED <<settings, persistence, workspace, io, asking, panel, open, config,
                   saved, inflight, codec, svc, refreshing, exporting, exported>>

Next ==
    \/ \E w \in MainWindows : OpenChat(w)
    \/ OpenChatAsks
    \/ ConfigureChosen
    \/ \E k \in 1..3 : InputBoxFilled(k)
    \/ \E k \in 1..2 : ConfigUpdated(k)
    \/ \E w \in MainWindows : ConfigAnswered(w)
    \/ \E w \in MainWindows, stage \in DialogStages : ConfigCancelled(w, stage)
    \/ \E w \in MainWindows : CloseWindow(w)
    \/ \E w \in MainWindows, text \in UserTexts, chatType \in ChatTypes :
          SendMessage(w, text, chatType, "")
    \/ \E i \in 1..MaxInflight, resp \in Responses : Complete(i, resp)
    \/ \E w \in MainWindows : ClearSavedChat(w, "saved")
    \/ \E w \in MainWindows :
          \E jsonData \in MainImports \cup ExportOf(w) :
             ImportConversation(w, jsonData)
    \/ \E w \in MainWindows : ExportConversation(w, "saved")
    \/ SomeExportStep
    \/ \E w \in MainWindows : RefreshModels(w)
    \/ \E i \in 1..MaxInflight, resp \in MainTagsResponses : ModelsAnswered(i, resp)
    \/ SomeFileOpSettles

Spec == Init /\ [][Next]_vars

(***************************************************************************)
(* The codec on its own: serializeConversation and deserializeConversation *)
(* applied to conversations and to texts of a known shape                  *)
(***************************************************************************)
CodecRoles == {"user", "assistant"}
CodecContents == {"hello", ""}
CodecMessages == {Msg(r, c) : r \in CodecRoles, c \in CodecContents}

\* every well-formed conversation of at most MaxConvLen messages
Conversations ==
    {JArr(a) : a \in UNION {[1..n -> CodecMessages] : n \in 0..MaxConvLen}}

\* values a text may carry in its conversation field
FieldValues ==
    {JStr("not-an-array"), JStr(""), JNull, JNum("0"), JNum("42"), JBool(TRUE),
     JObj(<<>>), PriorWithoutPrompt,
     JArr(<<>>),
     JArr(<<JNum("42")>>),
     JArr(<<JNull, Msg("user", "hello")>>),
     JArr(<<Msg("system", "obey")>>),
     JArr(<<JObj(<<Member("role", JStr("user"))>>)>>),
     JArr(<<Msg("user", "hello"), Msg("user", "hello")>>)}

Envelope(v) ==
    JSONstringify(JObj(<<Member("version", JStr("1.0")), Member("conversation", v)>>))

\* a text together with what it is by construction
TextCase(shape, conv, text) ==
    [pc |-> "text", from |-> "text", shape |-> shape, conv |-> conv,
     text |-> text, result |-> Thrown("")]

TextCases ==
    {TextCase(IF v.t = "array" THEN "array" ELSE "nonarray", v, Envelope(v)) :
        v \in FieldValues}
    \cup {TextCase("missing", Undefined, t) :
            t \in {JSONstringify(JObj(<<>>)), SavedText(PriorWithoutPrompt),
                   JSONstringify(JArr(<<>>)), JSONstringify(JStr("conversation")),
                   JSONstringify(JNull)}}
    \cup {TextCase("unparseable", Undefined, t) :
            t \in {<<LBrace>>, <<LBracket, RBrace>>,
                   Envelope(JArr(<<>>)) \o <<RBrace>>,
                   <<LBrace, Tok("string", "conversation"), Colon, LBracket,
                     Tok("string", "x"), Comma, RBracket, RBrace>>}}

ConvCases ==
    {[pc |-> "conv", from |-> "conv", shape |-> "array", conv |-> c,
      text |-> <<>>, result |-> Thrown("")] : c \in Conversations}

CodecInit ==
    /\ settings = Configured(AnsweringUrl, "")
    /\ persistence = "file"
    /\ workspace = FALSE
    /\ file = NoFile
    /\ NoWindow
    /\ inflight = <<>>
    /\ refreshing = <<>>
    /\ exporting = <<>>
    /\ io = <<>>
    /\ emitted = <<>>
    /\ calls = <<>>
    /\ logged = <<>>
    /\ svc = SvcIdle
    /\ exported = NoExport
    /\ last = Step("none", 0, "", "", "", TRUE)
    /\ ncmds = 0
    /\ codec \in ConvCases \cup TextCases

CodecSerialize ==
    /\ codec.pc = "conv"
    /\ codec' = [codec EXCEPT !.pc = "text",
                              !.text = serializeConversation(codec.conv)]
    /\ UNCHANGED <<windowVars, emitted, logged, last, ncmds, svc, exported>>

CodecDeserialize ==
    /\ codec.pc = "text"
    /\ codec' = [codec EXCEPT !.pc = "done",
                              !.result = deserializeConversation(codec.text)]
    /\ UNCHANGED <<windowVars, emitted, logged, last, ncmds, svc, exported>>

CodecNext == CodecSerialize \/ CodecDeserialize

CodecSpec == CodecInit /\ [][CodecNext]_vars

(***************************************************************************)
(* clearSavedChat on its own: an open window with any history, cleared     *)
(* again and again                                                         *)
(***************************************************************************)
\* what savedChatHistory may hold when the clear arrives: the promise of the
\* load, or a history
ClearHistories ==
    {JPromise, JArr(<<>>), PriorWithPrompt, PriorWithoutPrompt,
     JArr(<<Msg("user", "Be concise")>>),
     JArr(<<Msg("user", "hello")>>)}

\* h is a history a window may hold: with the globalState manager an array,
\* which the open or a clear seeded or an import brought; with the file
\* manager the promise too
HeldHistory(h) == persistence = "globalState" => IsArray(h)

ClearInit ==
    /\ settings \in {Configured(AnsweringUrl, p) : p \in SystemPrompts}
    /\ persistence \in Persistences
    /\ workspace \in BOOLEAN
    /\ file \in (IF persistence = "globalState" THEN StoredEntries
                  ELSE IF workspace THEN InitialFiles ELSE {NoFile})
    /\ \E h \in ClearHistories : HeldHistory(h) /\ Opened(MainWindows, h)
    /\ Quiet
    /\ ncmds = Cardinality(MainWindows)   \* the openChat command of the open window

\* the chatType the webview sends with clearSavedChat
ClearTypes == {"saved", "quick"}

ClearNext ==
    \/ \E w \in MainWindows, chatType \in ClearTypes : ClearSavedChat(w, chatType)
    \/ SomeFileOpSettles

ClearSpec == ClearInit /\ [][ClearNext]_vars

\* the manager's clearConversationHistory called directly, between clears
ManagerNext ==
    \/ ClearNext
    \/ clearConversationHistory

ManagerSpec == ClearInit /\ [][ManagerNext]_vars

(***************************************************************************)
(* quick chat in two windows of one process: windows open and close and    *)
(* send in quick mode                                                      *)
(***************************************************************************)
\* what the users of the two windows type
TwoWindowTexts == {"hello", "bye"}

QuickInit ==
    /\ settings \in {Configured(AnsweringUrl, p) : p \in {"", "Be concise"}}
    /\ persistence \in Persistences
    /\ workspace = FALSE
    /\ file = NoFile
    /\ Opened(MainWindows,
              SeedSystemPrompt(LoadAtOpen(file, workspace), settings.systemPrompt).val)
    /\ Quiet
    /\ ncmds = Cardinality(MainWindows)   \* the openChat command of the open window

QuickNext ==
    \/ \E w \in Windows : OpenChat(w)
    \/ \E w \in Windows : CloseWindow(w)
    \/ \E w \in Windows, text \in TwoWindowTexts : SendMessage(w, text, "quick", "")
    \/ \E i \in 1..MaxInflight, resp \in Responses : Complete(i, resp)

QuickSpec == QuickInit /\ [][QuickNext]_vars

(***************************************************************************)
(* two saved-chat windows on one workspace folder: each has its own        *)
(* savedChatHistory, both save to the one file                             *)
(***************************************************************************)
TwoWindowInit ==
    /\ settings = Configured(AnsweringUrl, "")
    /\ persistence = "file"
    /\ workspace = TRUE
    /\ file \in {NoFile, FileOf(SavedText(PriorWithoutPrompt))}
    /\ Opened(Windows, JArr(<<>>))
    /\ Quiet
    /\ ncmds = Cardinality(Windows)   \* the two openChat commands

TwoWindowNext ==
    \/ \E w \in Windows, text \in TwoWindowTexts : SendMessage(w, text, "saved", "")
    \/ \E i \in 1..MaxInflight, resp \in Responses : Complete(i, resp)
    \/ \E w \in Windows : ClearSavedChat(w, "saved")
    \/ SomeFileOpSettles

TwoWindowSpec == TwoWindowInit /\ [][TwoWindowNext]_vars

(***************************************************************************)
(* importConversation on its own: an open window with any history, into    *)
(* which conversations are imported                                        *)
(***************************************************************************)
\* the window is open and holds one of the histories a clear may find
ImportInit == ClearInit

ImportNext ==
    \/ \E w \in MainWindows :
          \E jsonData \in ImportTexts \cup ExportOf(w) :
             ImportConversation(w, jsonData)
    \/ SomeFileOpSettles

ImportSpec == ImportInit /\ [][ImportNext]_vars

(***************************************************************************)
(* exportConversation on its own: an open window with any history,         *)
(* exported from the saved and from the quick tab                          *)
(***************************************************************************)
ExportInit ==
    /\ settings \in {Configured(AnsweringUrl, p) : p \in SystemPrompts}
    /\ persistence \in Persistences
    /\ workspace \in BOOLEAN
    /\ file \in (IF workspace \/ persistence = "globalState"
                  THEN {NoFile, FileOf(SavedText(PriorWithoutPrompt))}
                  ELSE {NoFile})
    /\ \E h \in ClearHistories : HeldHistory(h) /\ Opened(MainWindows, h)
    /\ Quiet
    /\ ncmds = Cardinality(MainWindows)   \* the openChat command of the open window

ExportNext ==
    \/ \E w \in MainWindows, chatType \in ExportTypes : ExportConversation(w, chatType)
    \/ SomeExportStep

ExportSpec == ExportInit /\ [][ExportNext]_vars

(***************************************************************************)
(* sendMessage on its own: an open window whose UI names a model with each *)
(* send, against a backend that answers or stays silent                    *)
(***************************************************************************)
\* the model chosen in the UI's dropdown: none, or one other than the default
SelectedModels == {"", "mistral"}

SendInit ==
    /\ settings \in {Configured(u, p) : u \in {AnsweringUrl, SilentUrl}, p \in SystemPrompts}
    /\ persistence \in Persistences
    /\ workspace \in BOOLEAN
    /\ file = NoFile
    /\ Opened(MainWindows, ClearedHistory(settings.systemPrompt))
    /\ Quiet
    /\ ncmds = Cardinality(MainWindows)   \* the openChat command of the open window

\* the continuation of some awaiting sendMessage handler
SomeComplete == \E i \in 1..MaxInflight, resp \in Responses : Complete(i, resp)

SendNext ==
    \/ \E w \in MainWindows, text \in UserTexts, chatType \in ChatTypes,
          selectedModel \in SelectedModels :
          SendMessage(w, text, chatType, selectedModel)
    \/ SomeComplete
    \/ SomeFileOpSettles

SendSpec == SendInit /\ [][SendNext]_vars

\* the event loop resumes a handler whose sendChat promise has settled
SendFairSpec == SendSpec /\ WF_vars(SomeComplete)

(***************************************************************************)
(* OpenWebUIService on its own: sendChat and getAvailableModels called     *)
(* against a backend that answers, fails or stays silent                   *)
(***************************************************************************)
\* the conversations and models sendChat is called with
ServiceMessages == {JArr(<<>>), JArr(<<Msg("user", "hello")>>), PriorWithoutPrompt}
ServiceModels == {"", DefaultModel}

\* bodies the chat endpoint may answer with besides the reply
ChatResponses ==
    Responses \cup {Answer(<<LBrace>>), Answer(JSONstringify(JObj(<<>>))),
                    Answer(JSONstringify(JNull))}

\* a service constructed with the openwebuiUrl of the settings, called
\* directly
ServiceInit ==
    /\ settings \in {Configured(u, "") : u \in {AnsweringUrl, SilentUrl}}
    /\ persistence = "file"
    /\ workspace = FALSE
    /\ file = NoFile
    /\ NoWindow
    /\ Quiet
    /\ ncmds = 0

\* sendChat up to its await: the request is written, or the call has failed
CallSendChat(messages, model, systemPrompt) ==
    /\ svc.pc = "idle"
    /\ LET q == ChatRequest(messages, model, systemPrompt) IN
       svc' = IF q.ok
              THEN [SvcIdle EXCEPT !.pc = "awaiting", !.op = "sendChat",
                                   !.model = model, !.systemPrompt = systemPrompt,
                                   !.given = messages,
                                   !.messages = MessagesAfterSendChat(messages),
                                   !.issued = <<HttpRequest("/ollama/api/chat", "POST", <<q.val>>)>>]
              ELSE [SvcIdle EXCEPT !.pc = "done", !.op = "sendChat",
                                   !.model = model, !.systemPrompt = systemPrompt,
                                   !.given = messages, !.messages = messages,
                                   !.result = q]
    /\ logged' = <<>>
    /\ UNCHANGED <<windowVars, emitted, last, ncmds, codec, exported>>

\* getAvailableModels up to its await
CallGetAvailableModels ==
    /\ svc.pc = "idle"
    /\ svc' = [SvcIdle EXCEPT !.pc = "awaiting", !.op = "getAvailableModels",
                              !.issued = <<HttpRequest("/ollama/api/tags", "GET", <<>>)>>]
    /\ logged' = <<>>
    /\ UNCHANGED <<windowVars, emitted, last, ncmds, codec, exported>>

\* the response's 'end' event or the request's 'error' event settles the
\* promise of makeRequest; no other event does, and a silent backend sends
\* neither
Settle(resp) ==
    /\ svc.pc = "awaiting"
    /\ settings.openwebuiUrl # SilentUrl
    /\ IF svc.op = "sendChat"
       THEN /\ resp \in ChatResponses
            /\ svc' = [svc EXCEPT !.pc = "done", !.resp = resp,
                                  !.result = sendChatResult(resp)]
            /\ logged' = IF sendChatResult(resp).ok THEN <<>> ELSE <<ApiErrorLog>>
       ELSE /\ resp \in TagsResponses
            /\ svc' = [svc EXCEPT !.pc = "done", !.resp = resp,
                                  !.result = getAvailableModels(resp)]
            /\ logged' = ModelsLog(resp)
    /\ UNCHANGED <<windowVars, emitted, last, ncmds, codec, exported>>

\* the caller takes the outcome
SvcReturn ==
    /\ svc.pc = "done"
    /\ svc' = SvcIdle
    /\ logged' = <<>>
    /\ UNCHANGED <<windowVars, emitted, last, ncmds, codec, exported>>

ServiceNext ==
    \/ \E messages \in ServiceMessages, model \in ServiceModels,
          systemPrompt \in SystemPrompts :
          CallSendChat(messages, model, systemPrompt)
    \/ CallGetAvailableModels
    \/ \E resp \in ChatResponses \cup TagsResponses : Settle(resp)
    \/ SvcReturn

ServiceSpec == ServiceInit /\ [][ServiceNext]_vars

\* the event loop runs every callback whose event has arrived
ServiceFairSpec == ServiceSpec /\ WF_vars(ServiceNext)

(***************************************************************************)
(* exchanges and resets in one window: saved and prompt sends whose         *)
(* requests overlap, replies of every shape, clears and imports between     *)
(***************************************************************************)
\* the chatType of the sends
ExchangeTypes == {"saved", "prompt"}

\* the window was opened and, with the file manager, cleared
ExchangeInit ==
    /\ settings \in {Configured(AnsweringUrl, p) : p \in {"", "Be concise"}}
    /\ persistence \in Persistences
    /\ workspace = TRUE
    /\ file = NoFile
    /\ Opened(MainWindows, ClearedHistory(settings.systemPrompt))
    /\ Quiet
    /\ ncmds = Cardinality(MainWindows)   \* the openChat command of the open window

ExchangeNext ==
    \/ \E w \in MainWindows, text \in TwoWindowTexts, chatType \in ExchangeTypes :
          SendMessage(w, text, chatType, "")
    \/ \E i \in 1..MaxInflight, resp \in ChatResponses : Complete(i, resp)
    \/ \E w \in MainWindows : ClearSavedChat(w, "saved")
    \/ \E w \in MainWindows, jsonData \in MainImports :
          ImportConversation(w, jsonData)
    \/ SomeFileOpSettles

ExchangeSpec == ExchangeInit /\ [][ExchangeNext]_vars

(***************************************************************************)
(* overlapping saved sends in one window, with no reset between             *)
(***************************************************************************)
OverlapNext ==
    \/ \E w \in MainWindows, text \in TwoWindowTexts : SendMessage(w, text, "saved", "")
    \/ \E i \in 1..MaxInflight, resp \in ChatResponses : Complete(i, resp)
    \/ SomeFileOpSettles

OverlapSpec == ExchangeInit /\ [][OverlapNext]_vars

(***************************************************************************)
(* refreshModels: the refresh button of an open window, against a backend   *)
(* that answers, fails or stays silent                                      *)
(***************************************************************************)
RefreshInit ==
    /\ settings \in {Configured(u, "") : u \in {AnsweringUrl, SilentUrl}}
    /\ persistence \in Persistences
    /\ workspace \in BOOLEAN
    /\ file \in (IF workspace \/ persistence = "globalState"
                  THEN {NoFile, FileOf(SavedText(PriorWithoutPrompt))}
                  ELSE {NoFile})
    /\ \E h \in {JArr(<<>>), PriorWithoutPrompt} : Opened(MainWindows, h)
    /\ Quiet
    /\ ncmds = Cardinality(MainWindows)   \* the openChat command of the open window

\* the continuation of some awaiting refreshModels handler
SomeModelsAnswered ==
    \E i \in 1..MaxInflight, resp \in TagsResponses : ModelsAnswered(i, resp)

RefreshNext ==
    \/ \E w \in MainWindows : RefreshModels(w)
    \/ SomeModelsAnswered

RefreshSpec == RefreshInit /\ [][RefreshNext]_vars

\* the event loop resumes the handler once the promise of getAvailableModels
\* has settled
RefreshFairSpec == RefreshSpec /\ WF_vars(SomeModelsAnswered)

(***************************************************************************)
(* exchanges of a window that may be closed while its requests are in      *)
(* flight: the continuations find the panel disposed                       *)
(***************************************************************************)
CloseNext ==
    \/ \E w \in MainWindows, text \in TwoWindowTexts, chatType \in ExchangeTypes :
          SendMessage(w, text, chatType, "")
    \/ \E i \in 1..MaxInflight, resp \in ChatResponses : Complete(i, resp)
    \/ \E w \in MainWindows : CloseWindow(w)
    \/ SomeFileOpSettles

CloseSpec == ExchangeInit /\ [][CloseNext]_vars

(***************************************************************************)
(* sends of every mode in a window that is busy: with the file manager the *)
(* history is the promise of the load until a clear, so that a saved send  *)
(* fails before its request while the others start theirs                  *)
(***************************************************************************)
\* the window was opened and has or has not been cleared since
BusyInit ==
    /\ settings \in {Configured(AnsweringUrl, p) : p \in {"", "Be concise"}}
    /\ persistence \in Persistences
    /\ workspace = TRUE
    /\ file = NoFile
    /\ \E h \in {SeedSystemPrompt(LoadAtOpen(file, workspace), settings.systemPrompt).val,
                 ClearedHistory(settings.systemPrompt)} :
          Opened(MainWindows, h)
    /\ Quiet
    /\ ncmds = Cardinality(MainWindows)   \* the openChat command of the open window

BusyNext ==
    \/ \E w \in MainWindows, text \in UserTexts, chatType \in ChatTypes :
          SendMessage(w, text, chatType, "")
    \/ \E i \in 1..MaxInflight, resp \in Responses : Complete(i, resp)
    \/ SomeFileOpSettles

BusySpec == BusyInit /\ [][BusyNext]_vars

(***************************************************************************)
(* Properties                                                              *)
(***************************************************************************)
\* the message the seeding of window w puts first
PromptMsg(w) == Msg("user", config[w].systemPrompt)

\* a Message: role user or assistant, content a string
WellFormedMessage(m) ==
    /\ m.t = "object"
    /\ Get(m, "role") \in {JStr("user"), JStr("assistant")}
    /\ Get(m, "content").t = "string"

\* how many copies of the message m a sequence starts with
LeadingPrompts(a, m) ==
    CHOOSE n \in 0..Len(a) :
        /\ \A i \in 1..n : a[i] = m
        /\ n = Len(a) \/ a[n + 1] # m

Max(a, b) == IF a >= b THEN a ELSE b

\* the history a clear of window w leaves: the system prompt message alone,
\* or nothing when the prompt is blank
ClearedExpected(w) ==
    JArr(IF HasPrompt(config[w].systemPrompt) THEN <<PromptMsg(w)>> ELSE <<>>)

\* the step has called the save of window w with the history h: the
\* globalState entry holds it at once; with the file manager the write of
\* its text is started and the file is as it was, or, without a workspace
\* folder, nothing is started and the warning is logged
SaveStarted(w, h) ==
    IF persistence = "globalState"
    THEN file' = FileOf(SavedText(h)) /\ io' = io
    ELSE IF workspace
    THEN io' = Append(io, FileOp("write", w, SavedText(h))) /\ file' = file
    ELSE io' = io /\ file' = file /\ logged' = <<NoWorkspaceLog>>

\* C1: in every state of an open window with a non-blank system prompt, the
\* saved history starts with the user-role system prompt message, and holds
\* that message at most once.
C1_PromptLeadsSavedHistory ==
    \A w \in Windows :
        (panel[w] /\ HasPrompt(config[w].systemPrompt)) =>
            /\ IsArray(saved[w])
            /\ Len(saved[w].a) >= 1
            /\ saved[w].a[1] = PromptMsg(w)
            /\ Cardinality({i \in 1..Len(saved[w].a) : saved[w].a[i] = PromptMsg(w)}) <= 1

\* C2: whenever a window has just been opened with a non-blank system prompt,
\* the openChat command has run to its end and the window's history is the
\* loaded history with the system prompt first, added only if the loaded
\* history did not start with it already: a reopen over a file that starts
\* with the prompt adds no second copy.
C2_SeedOncePerOpen ==
    \A w \in Windows :
        (last.kind = "openChat" /\ last.w = w /\ panel[w]
            /\ HasPrompt(config[w].systemPrompt)) =>
            LET loaded == Elems(LoadAwaited(file, workspace))
                added == IF LeadingPrompts(loaded, PromptMsg(w)) = 0 THEN 1 ELSE 0
            IN  /\ last.ok
                /\ IsArray(saved[w])
                /\ Len(saved[w].a) = Len(loaded) + added
                /\ saved[w].a[1] = PromptMsg(w)
                /\ LeadingPrompts(saved[w].a, PromptMsg(w))
                      = Max(1, LeadingPrompts(loaded, PromptMsg(w)))
                /\ SubSeq(saved[w].a, 1 + added, Len(saved[w].a)) = loaded

\* C3: whenever a window is open where histories are persisted, the
\* persisted history equals the in-memory saved history.
C3_FlushedAfterEveryMutation ==
    \A w \in Windows :
        (open[w] /\ (workspace \/ persistence = "globalState")) =>
            LoadAwaited(file, workspace) = saved[w]

\* C4: the quick conversation grows by the user turn of each non-blank quick
\* send and the assistant turn of each successful reply: the quick send that
\* follows a successful quick round trip of its window hands the backend the
\* two turns of that round trip before its own user turn.
C4_QuickGrowth ==
    [][(/\ last.kind = "response" /\ last.chatType = "quick" /\ last.ok
        /\ last'.kind = "sendMessage" /\ last'.chatType = "quick" /\ last'.ok
        /\ last'.w = last.w) =>
          LET sent == inflight'[Len(inflight')].request.messages IN
          /\ Len(sent) >= 3
          /\ sent[Len(sent) - 1] = Msg("assistant", "reply")
          /\ sent[Len(sent)] = Msg("user", last'.text)]_vars

\* C5: a non-blank send in prompt mode, and its reply or failure, leave
\* every saved history and the persisted history unchanged and start no
\* save.
C5_PromptSendFrame ==
    [][(((last'.kind = "sendMessage" /\ last'.text # "") \/ last'.kind = "response")
          /\ last'.chatType = "prompt") =>
            UNCHANGED <<saved, file, io>>]_vars

\* a prompt-mode reply arrived while the saved history and the persisted
\* history hold something
C5_Witness ==
    /\ last.kind = "response" /\ last.chatType = "prompt" /\ last.ok
    /\ emitted = <<ReceiveMessage(1, JStr("reply"), "prompt")>>
    /\ Elems(saved[1]) # <<>>
    /\ file.exists

\* the text the catch posts for a rejected sendChat
FailureTexts ==
    {JStr("Error: Error: Failed to get response from Ollama: " \o cause) :
        cause \in {"Error: connect ECONNREFUSED", "Error: Invalid JSON response",
                   "TypeError"}}

\* the step is the continuation of a saved send whose backend call failed:
\* sendChat has logged its error and thrown. (A continuation also fails
\* when the reply has arrived and cannot be posted; sendChat logs nothing
\* then.)
SavedCallFailed ==
    /\ last'.kind = "response" /\ last'.chatType = "saved"
    /\ \E j \in 1..Len(logged') : logged'[j] = ApiErrorLog

\* exactly one event, an assistant-tagged receiveMessage of the saved tab
\* carrying the formatted error
OneErrorMessage(events) ==
    /\ Len(events) = 1
    /\ events[1].command = "receiveMessage"
    /\ events[1].sender = "assistant"
    /\ events[1].chatType = "saved"
    /\ events[1].text \in FailureTexts

\* C6 as stated: every failed backend call of a saved send posts exactly one
\* assistant-tagged receiveMessage carrying the formatted error, whatever
\* has become of the window since the send.
C6_FailureAlwaysPosted ==
    [][SavedCallFailed => OneErrorMessage(emitted')]_vars

\* C6 amended: a failed backend call of a saved send changes no history and
\* starts no save; while the panel of its window exists it posts exactly one
\* assistant-tagged receiveMessage carrying the formatted error, and once
\* the panel is closed it posts nothing and the handler's promise rejects;
\* the user turn a saved send appended before the call stays, and every
\* saved send puts the whole history, that turn included, into its request.
C6_SavedFailureKeepsUserTurn ==
    [][/\ SavedCallFailed =>
            /\ ~last'.ok
            /\ UNCHANGED <<saved, file, io>>
            /\ \A j \in 1..Len(calls') : calls'[j].call # "saveConversationHistory"
            /\ IF panel[last'.w]
               THEN /\ OneErrorMessage(emitted')
                    /\ calls' = <<PostCall(emitted'[1])>>
               ELSE /\ emitted' = <<Raised(last'.w, WebviewDisposed)>>
                    /\ calls' = <<>>
       /\ (last'.kind = "sendMessage" /\ last'.chatType = "saved" /\ last'.ok) =>
            /\ saved'[last'.w].a = Append(saved[last'.w].a, Msg("user", last'.text))
            /\ inflight'[Len(inflight')].request.messages = saved'[last'.w].a]_vars

\* the send after a failed exchange whose error was posted: its request
\* carries the turn of the failed exchange right before its own, with no
\* assistant turn between
C6_Witness ==
    /\ last.kind = "sendMessage" /\ last.chatType = "saved"
    /\ Len(inflight) = 1
    /\ LET m == inflight[1].request.messages IN
       /\ Len(m) >= 2
       /\ m[Len(m)] = Msg("user", "hello")
       /\ m[Len(m) - 1] = Msg("user", "hello")
       /\ saved[1].a = m

\* the backend call of a saved send failed after the window was closed:
\* nothing is posted, the history ends with the user turn
C6_WitnessClosed ==
    /\ last.kind = "response" /\ last.chatType = "saved" /\ ~last.ok
    /\ ~panel[1]
    /\ logged = <<ApiErrorLog, ChatErrorLog>>
    /\ emitted = <<Raised(1, WebviewDisposed)>>
    /\ saved[1].a[Len(saved[1].a)] = Msg("user", "hello")
    /\ io = <<>>

\* C7: with no persisted history and a non-blank system prompt P, the open
\* leaves the history [user P]; a saved send of T as the first command after
\* the open is accepted, and its successful reply R leaves the saved history
\* equal to [user P, user T, assistant R].
C7_FirstSavedExchange ==
    [][/\ (/\ last'.kind = "openChat" /\ panel'[last'.w]
           /\ HasPrompt(config'[last'.w].systemPrompt)
           /\ ~file.exists) =>
             saved'[last'.w] = JArr(<<Msg("user", config'[last'.w].systemPrompt)>>)
       /\ (/\ ncmds = 2
           /\ last.kind = "sendMessage" /\ last.chatType = "saved" /\ last.ok
           /\ HasPrompt(config[last.w].systemPrompt)
           /\ ~file.exists
           /\ Len(inflight) = 1
           /\ last'.kind = "response" /\ last'.ok) =>
             saved'[last.w] = JArr(<<Msg("user", config[last.w].systemPrompt),
                                     Msg("user", last.text),
                                     Msg("assistant", "reply")>>)]_vars

\* C8: deserializing the serialization of a well-formed conversation succeeds
\* and returns that conversation, order and duplicates kept.
C8_RoundTrip ==
    (codec.pc = "done" /\ codec.from = "conv") => codec.result = Returned(codec.conv)

\* a three-message conversation with a repeated message went through
C8_Witness ==
    /\ codec.pc = "done" /\ codec.from = "conv"
    /\ Len(codec.conv.a) = 3
    /\ codec.conv.a[1] = codec.conv.a[2]
    /\ codec.conv.a[2] # codec.conv.a[3]
    /\ codec.result.ok

\* C9: deserialize returns the conversation array, elements in order, exactly
\* when the text parses and has an array in its conversation field; in every
\* other case it throws and returns nothing, never an empty conversation.
C9_DeserializeValidates ==
    (codec.pc = "done") =>
        IF codec.shape = "array"
        THEN codec.result.ok /\ codec.result.val = codec.conv
        ELSE ~codec.result.ok /\ codec.result.val = Undefined /\ codec.result.err # ""

\* a text whose conversation field is a string was refused
C9_Witness ==
    /\ codec.pc = "done" /\ codec.from = "text"
    /\ codec.shape = "nonarray"
    /\ codec.conv = JStr("not-an-array")
    /\ ~codec.result.ok

\* C10: an import that is accepted carries only well-formed messages, and
\* after an import the saved history holds only well-formed messages.
C10_ImportOnlyWellFormed ==
    /\ \A i \in 1..Len(emitted) :
          emitted[i].command = "importSuccess" =>
             \A j \in 1..Len(emitted[i].messages.a) :
                WellFormedMessage(emitted[i].messages.a[j])
    /\ last.kind = "importConversation" =>
          \A j \in 1..Len(Elems(saved[last.w])) :
             WellFormedMessage(Elems(saved[last.w])[j])

\* C11: an import that fails posts exactly one importError event to its
\* window, leaves the saved histories and the persisted history as they
\* were and starts no save.
C11_FailedImportChangesNothing ==
    [][(last'.kind = "importConversation" /\ ~last'.ok) =>
          /\ Len(emitted') = 1
          /\ emitted'[1].command = "importError"
          /\ emitted'[1].w = last'.w
          /\ UNCHANGED <<saved, file, io>>]_vars

\* an import of a conversation field that is no array was refused while the
\* saved history and the file both hold something
C11_Witness ==
    /\ last.kind = "importConversation" /\ ~last.ok
    /\ emitted = <<ImportError(1, "Failed to import conversation: Error: Failed to import conversation: Error: Invalid conversation format")>>
    /\ Len(Elems(saved[1])) >= 2
    /\ file.exists

\* C12: every clear leaves the saved history equal to the system prompt
\* message alone (empty when the prompt is blank) and starts the save of
\* exactly that history; a clear right after a clear leaves the saved history
\* as it was and saves the same history again, so that a persisted history
\* that is stored at once is not changed by it.
C12_ClearIdempotent ==
    [][(last'.kind = "clearSavedChat") =>
          LET w == last'.w IN
          /\ saved'[w] = ClearedExpected(w)
          /\ SaveStarted(w, ClearedExpected(w))
          /\ (last.kind = "clearSavedChat" /\ last.w = w) =>
                /\ saved'[w] = saved[w]
                /\ SaveStarted(w, saved[w])
                /\ persistence = "globalState" => file' = file]_vars

\* two clears in a row of a three-message history under the prompt "Be
\* concise": the prompt message alone, in memory and in the stored entry
C12_Witness ==
    /\ ncmds = 3
    /\ last.kind = "clearSavedChat"
    /\ config[1].systemPrompt = "Be concise"
    /\ saved[1] = JArr(<<Msg("user", "Be concise")>>)
    /\ LoadAwaited(file, workspace) = saved[1]

\* two clears in a row with the file manager: two writes of the empty
\* history are under way, the file still holds the conversation of before
C12_WitnessFile ==
    /\ ncmds = 3
    /\ last.kind = "clearSavedChat"
    /\ persistence = "file"
    /\ saved[1] = JArr(<<>>)
    /\ io = <<FileOp("write", 1, SavedText(JArr(<<>>))),
              FileOp("write", 1, SavedText(JArr(<<>>)))>>
    /\ file = FileOf(SavedText(PriorWithoutPrompt))

\* C13: whatever is persisted, an openChat that gets as far as the panel
\* runs to its end without an error, with a sequence of messages loaded and
\* a sequence as the window's history.
C13_LoadNeverBlocksOpen ==
    (last.kind = "openChat" /\ panel[last.w]) =>
        /\ last.ok
        /\ emitted = <<>>
        /\ IsArray(LoadAwaited(file, workspace))
        /\ IsArray(saved[last.w])

\* C14: with the file manager and no workspace folder no step writes the
\* file or starts a write, every load and every save logs the warning and
\* nothing else, the load of an openChat delivers the empty conversation, and
\* saved sends, replies, clears and imports still update the history in
\* memory and post their events.
C14_NoWorkspace ==
    [][(persistence = "file" /\ ~workspace) =>
          LET w == last'.w
              warned == logged' = <<NoWorkspaceLog>>
          IN
          /\ file' = file /\ ~file'.exists /\ io' = io
          /\ (last'.kind = "openChat" /\ panel'[w]) =>
                /\ warned
                /\ loadConversationHistory(file, workspace) = JArr(<<>>)
          /\ (last'.kind = "sendMessage" /\ last'.chatType = "saved") =>
                /\ Elems(saved'[w]) = Append(Elems(saved[w]), Msg("user", last'.text))
                /\ emitted' = <<>>
          /\ (last'.kind = "response" /\ last'.chatType = "saved" /\ last'.ok) =>
                /\ saved'[w].a = Append(saved[w].a, Msg("assistant", "reply"))
                /\ emitted' = <<ReceiveMessage(w, JStr("reply"), "saved")>>
                /\ warned
          /\ (last'.kind = "clearSavedChat") =>
                saved'[w] = ClearedExpected(w) /\ emitted' = <<>> /\ warned
          /\ (last'.kind = "importConversation" /\ last'.ok) =>
                /\ emitted' = <<ImportSuccess(w, saved'[w])>>
                /\ warned]_vars

\* C18: a sendMessage is accepted only with a non-blank text; one that is
\* refused starts no request and no save, changes no history and no file,
\* posts no event and logs the validation failure.
C18_BlankSendRejected ==
    [][(last'.kind = "sendMessage") =>
          IF last'.text # ""
          THEN last'.text \notin {"", " "}
          ELSE /\ ~last'.ok
               /\ UNCHANGED <<saved, file, io, inflight>>
               /\ emitted' = <<>>
               /\ logged' = <<Log("error", "Empty message received")>>]_vars

\* a blank send arrived while a request was in flight and the saved history
\* held the user turn of that request
C18_Witness ==
    /\ last.kind = "sendMessage" /\ ~last.ok /\ last.text = ""
    /\ Len(inflight) = 1
    /\ Len(Elems(saved[1])) >= 1
    /\ logged = <<Log("error", "Empty message received")>>

\* C15: getAvailableModels never throws: after a socket error, an
\* unparseable body or a body without a models list it returns the empty
\* sequence, and after a body with a list of models it returns the name of
\* each entry in order.
C15_ListModelsNeverRaises ==
    (svc.op = "getAvailableModels" /\ svc.pc = "done") =>
        LET body == JSONparse(svc.resp.text)
            models == Get(body.val, "models")
        IN
        /\ svc.result.ok
        /\ IsArray(svc.result.val)
        /\ (svc.resp.kind = "error" \/ ~body.ok \/ ~IsArray(models)) =>
              svc.result.val.a = <<>>
        /\ (svc.resp.kind = "body" /\ body.ok /\ IsArray(models)
               /\ \A i \in 1..Len(models.a) : models.a[i].t = "object") =>
              /\ Len(svc.result.val.a) = Len(models.a)
              /\ \A i \in 1..Len(models.a) :
                    svc.result.val.a[i] = Get(models.a[i], "name")

\* a tags response listing mistral before llama3.2 was turned into those
\* two names in that order
C15_Witness ==
    /\ svc.op = "getAvailableModels" /\ svc.pc = "done"
    /\ svc.resp.kind = "body"
    /\ svc.result = Returned(JArr(<<JStr("mistral"), JStr("llama3.2")>>))

\* a socket error on the tags request ended in the empty list and one logged
\* error
C15_WitnessFailure ==
    /\ svc.op = "getAvailableModels" /\ svc.pc = "done"
    /\ svc.resp = NetError
    /\ svc.result = Returned(JArr(<<>>))
    /\ logged = <<ModelsErrorLog>>

\* C16: every sendChat call that has issued its request eventually
\* completes, with the reply or with an error, whatever the backend does.
C16_SendChatCompletes ==
    (svc.op = "sendChat" /\ svc.pc = "awaiting") ~> (svc.pc = "done")

\* C17: a sendChat called with an empty model fails with "Model name is
\* required" and has issued no request; one called with a model issues
\* exactly the chat request naming that model.
C17_EmptyModelFailsFirst ==
    (svc.op = "sendChat") =>
        IF svc.model = ""
        THEN /\ svc.pc = "done"
             /\ svc.result = Thrown("Model name is required")
             /\ svc.issued = <<>>
        ELSE /\ Len(svc.issued) = 1
             /\ svc.issued[1].endpoint = "/ollama/api/chat"
             /\ svc.issued[1].data[1].model = svc.model

\* a sendChat with the empty model and a non-empty conversation has failed
\* without a request
C17_Witness ==
    /\ svc.op = "sendChat" /\ svc.model = "" /\ svc.pc = "done"
    /\ ~svc.result.ok
    /\ svc.issued = <<>>

\* C19: the request a send hands to the backend names the model selected
\* in the UI when one is selected, and config.defaultModel otherwise.
C19_SelectedModelUsed ==
    [][(last'.kind = "sendMessage" /\ last'.ok /\ Len(inflight') = Len(inflight) + 1) =>
          inflight'[Len(inflight')].request.model =
             (IF last'.selectedModel # "" THEN last'.selectedModel
              ELSE config[last'.w].defaultModel)]_vars

\* C20: every send that has started a request is eventually answered: no
\* request stays in flight for ever, and the window comes back to idle.
C20_EverySendAnswered ==
    (inflight # <<>>) ~> (inflight = <<>>)

\* C24: an export that wrote its file wrote the serialization of the
\* history of the requested mode: the quick conversation (here without a
\* turn, as no quick send was made) for an export requested from the quick
\* tab, the window's saved history for one from the saved tab.
C24_ExportOfRequestedStore ==
    (last.kind = "exportConversation" /\ exported.outcome = "written") =>
        exported.text = serializeConversation(IF last.chatType = "quick" THEN JArr(<<>>)
                                              ELSE saved[last.w])

\* C25: an export step, whether it writes the file, is cancelled in the
\* dialog or fails while writing, changes no saved history and not the
\* workspace file and starts no save.
C25_ExportChangesNoStore ==
    [][(last'.kind = "exportConversation") =>
          UNCHANGED <<saved, file, io>>]_vars

\* an export of a three-message history failed while writing, with a
\* workspace file present
C25_Witness ==
    /\ last.kind = "exportConversation" /\ ~last.ok
    /\ exported.outcome = "failed"
    /\ logged = <<ExportErrorLog>>
    /\ saved[1] = PriorWithPrompt
    /\ file.exists

\* an export of a three-message history wrote its file
C25_WitnessWritten ==
    /\ last.kind = "exportConversation"
    /\ exported.outcome = "written"
    /\ exported.text = serializeConversation(PriorWithPrompt)
    /\ saved[1] = PriorWithPrompt

\* C26: the text serializeConversation returns is a JSON object with the
\* members version "1.0", exportDate (the instant of the call),
\* extensionName and conversation, in that order, the conversation being the
\* input sequence; for the empty conversation it is the empty array.
C26_SerializeEnvelope ==
    (codec.from = "conv" /\ codec.pc \in {"text", "done"}) =>
        LET p == JSONparse(codec.text) IN
        /\ p.ok /\ p.val.t = "object"
        /\ [i \in 1..Len(p.val.o) |-> p.val.o[i].k] =
              <<"version", "exportDate", "extensionName", "conversation">>
        /\ Get(p.val, "version") = JStr("1.0")
        /\ Get(p.val, "exportDate") = JStr(Now)
        /\ Get(p.val, "extensionName") = JStr("On-Premise LLM Chat")
        /\ Get(p.val, "conversation") = codec.conv
        /\ (codec.conv = JArr(<<>>)) =>
              codec.text = <<LBrace, Tok("string", "version"), Colon, Tok("string", "1.0"),
                             Comma, Tok("string", "exportDate"), Colon, Tok("string", Now),
                             Comma, Tok("string", "extensionName"), Colon,
                             Tok("string", "On-Premise LLM Chat"),
                             Comma, Tok("string", "conversation"), Colon,
                             LBracket, RBracket, RBrace>>

\* the empty conversation was serialized
C26_Witness ==
    /\ codec.from = "conv" /\ codec.pc = "text"
    /\ codec.conv = JArr(<<>>)
    /\ Get(JSONparse(codec.text).val, "conversation") = JArr(<<>>)

\* a conversation of MaxConvLen messages was serialized
C26_WitnessLong ==
    /\ codec.from = "conv" /\ codec.pc = "text"
    /\ Len(codec.conv.a) = MaxConvLen
    /\ Get(JSONparse(codec.text).val, "conversation") = codec.conv

\* C27: a writeFile of a save that rejects is logged and nothing else: the
\* saved histories, the file and the requests in flight stay as they are and
\* no event is posted or raised; the continuation that started the save has
\* pushed the reply and posted it as receiveMessage in its own step, whatever
\* becomes of the write.
C27_FailedWriteNonFatal ==
    [][/\ (last'.kind = "writeFile" /\ ~last'.ok) =>
             /\ UNCHANGED <<saved, file, inflight>>
             /\ emitted' = <<>>
             /\ logged' = <<Log("error", "Failed, to save chat history:")>>
       /\ (last'.kind = "response" /\ last'.chatType = "saved" /\ last'.ok) =>
             /\ saved'[last'.w].a = Append(saved[last'.w].a, Msg("assistant", "reply"))
             /\ emitted' = <<ReceiveMessage(last'.w, JStr("reply"), "saved")>>]_vars

\* the write of the save after a reply was rejected: the reply is in memory,
\* the file does not hold it
C27_Witness ==
    /\ last.kind = "writeFile" /\ ~last.ok
    /\ logged = <<Log("error", "Failed, to save chat history:")>>
    /\ io = <<>>
    /\ IsArray(saved[1]) /\ Len(saved[1].a) >= 2
    /\ saved[1].a[Len(saved[1].a)] = Msg("assistant", "reply")
    /\ LoadAwaited(file, workspace) # saved[1]

\* C29: an importConversation step whose data deserializes makes the
\* window's saved history equal to the deserialized sequence, whatever it
\* held before, starts the save of that sequence and posts one importSuccess
\* whose messages are the new saved history.
C29_ImportReplacesWholesale ==
    [][(last'.kind = "importConversation" /\ last'.ok) =>
          \A w \in MainWindows : \A t \in ImportTexts \cup ExportOf(w) :
             (t # <<>> /\ deserializeConversation(t).ok /\ ImportConversation(w, t)) =>
                /\ saved'[w] = deserializeConversation(t).val
                /\ SaveStarted(w, deserializeConversation(t).val)
                /\ emitted' = <<ImportSuccess(w, saved'[w])>>]_vars

\* a conversation that no window starts with was imported as the first
\* command after the open, and its write went through: memory and file hold
\* it and nothing of the history of before
C29_Witness ==
    /\ last.kind = "writeFile" /\ last.ok
    /\ ncmds = 2
    /\ saved[1] \notin ClearHistories
    /\ Len(saved[1].a) = 2
    /\ file = FileOf(SavedText(saved[1]))

\* C28: a continuation that got a reply and posted it answers exactly one
\* of the requests in flight and posts one receiveMessage to that request's
\* window, tagged with that request's chatType, whatever else is in flight;
\* for a saved request the reply is appended to the window's saved history,
\* the save the same step starts is called with the history that holds it,
\* and of the two calls of the step the save comes first and the postMessage
\* of the event second; a request of another mode makes the one postMessage
\* call and no save.
C28_ReplyStoredSavedThenPosted ==
    [][(last'.kind = "response" /\ last'.ok) =>
          \E i \in 1..Len(inflight) :
             LET r == inflight[i] IN
             /\ inflight' = RemoveAt(inflight, i)
             /\ last'.w = r.w /\ last'.chatType = r.chatType
             /\ emitted' = <<ReceiveMessage(r.w, JStr("reply"), TagOf(r.chatType))>>
             /\ IF r.chatType = "saved"
                THEN /\ saved'[r.w].a = Append(saved[r.w].a, Msg("assistant", "reply"))
                     /\ SaveStarted(r.w, saved'[r.w])
                     /\ calls' = <<SaveCall(r.w), PostCall(emitted'[1])>>
                ELSE calls' = <<PostCall(emitted'[1])>>]_vars

\* a saved send got its reply while an earlier stateless send was still in
\* flight: the event is tagged saved and the write under way ends with the
\* reply
C28_Witness ==
    /\ last.kind = "response" /\ last.chatType = "saved" /\ last.ok
    /\ Len(inflight) = 1 /\ inflight[1].chatType = "prompt"
    /\ emitted = <<ReceiveMessage(1, JStr("reply"), "saved")>>
    /\ calls = <<SaveCall(1), PostCall(ReceiveMessage(1, JStr("reply"), "saved"))>>
    /\ io = <<FileOp("write", 1, SavedText(saved[1]))>>
    /\ saved[1].a[Len(saved[1].a)] = Msg("assistant", "reply")

\* the requests of window w in flight
InFlightOf(w) == {i \in 1..Len(inflight) : inflight[i].w = w}

\* C22 as stated: no window ever has more than one chat request in flight.
C22_OneRequestPerWindow ==
    \A w \in Windows : Cardinality(InFlightOf(w)) <= 1

\* C22 amended: the handler does not limit the requests of a window: every
\* non-blank sendMessage is handled at once, also while earlier requests of
\* the same window are in flight, which stay in flight unchanged. A saved
\* send that finds no array as its history fails at the push, before
\* sendChat: it posts its error and starts no request. Every other send
\* starts a request of its own at once.
C22_SendsStartAtOnce ==
    [][(last'.kind = "sendMessage" /\ last'.text # "") =>
          /\ SubSeq(inflight', 1, Len(inflight)) = inflight
          /\ IF last'.chatType = "saved" /\ ~IsArray(saved[last'.w])
             THEN /\ ~last'.ok
                  /\ inflight' = inflight
                  /\ emitted' = <<SendError(last'.w, "saved",
                                   "TypeError: savedChatHistory.push is not a function")>>
             ELSE /\ last'.ok
                  /\ emitted' = <<>>
                  /\ Len(inflight') = Len(inflight) + 1
                  /\ inflight'[Len(inflight')].w = last'.w
                  /\ inflight'[Len(inflight')].chatType = last'.chatType]_vars

\* a second send of window 1 has started its request while the first is
\* still in flight
C22_Witness ==
    /\ last.kind = "sendMessage" /\ last.ok
    /\ Cardinality(InFlightOf(1)) = 2

\* a saved send arrived while a request of its window was in flight and the
\* history was the promise of the load: the error is posted at once, the
\* request stays in flight
C22_WitnessNoArray ==
    /\ last.kind = "sendMessage" /\ last.chatType = "saved" /\ ~last.ok
    /\ saved[1] = JPromise
    /\ Cardinality(InFlightOf(1)) = 1
    /\ Len(emitted) = 1 /\ emitted[1].command = "receiveMessage"

\* the latest step called saveConversationHistory: a saved reply or a clear
SavingStep(l) ==
    \/ l.kind = "response" /\ l.chatType = "saved" /\ l.ok
    \/ l.kind = "clearSavedChat"

\* C21: with two windows on one workspace folder, every save starts the
\* write of the whole history of the window that saves, as that window holds
\* it at the save; a write that goes through leaves the file holding exactly
\* the text it was started with, whatever the file held and whatever the
\* other window holds, one that is rejected leaves the file as it was; no
\* other step changes the file.
C21_LastWriterWins ==
    [][/\ SavingStep(last') => SaveStarted(last'.w, saved'[last'.w])
       /\ (last'.kind = "writeFile") =>
             \E i \in 1..Len(io) :
                /\ io[i].kind = "write" /\ io[i].w = last'.w
                /\ io' = RemoveAt(io, i)
                /\ file' = IF last'.ok THEN FileOf(io[i].text) ELSE file
       /\ (~SavingStep(last') /\ last'.kind # "writeFile") =>
             UNCHANGED <<file, io>>]_vars

\* the write of window 2 went through last, after window 1 had saved a
\* different exchange: the file holds the history of window 2 and nothing of
\* window 1's
C21_Witness ==
    /\ last.kind = "writeFile" /\ last.w = 2 /\ last.ok
    /\ io = <<>>
    /\ file = FileOf(SavedText(saved[2]))
    /\ Msg("user", "hello") \in {saved[1].a[i] : i \in 1..Len(saved[1].a)}
    /\ saved[1].a[Len(saved[1].a)] = Msg("assistant", "reply")
    /\ Msg("user", "hello") \notin {saved[2].a[i] : i \in 1..Len(saved[2].a)}
    /\ Msg("user", "bye") \in {saved[2].a[i] : i \in 1..Len(saved[2].a)}

\* C23: the quick conversation is one for the whole process: a quick send of
\* one window that follows a successful quick round trip of another window
\* hands the backend the turns of that round trip before its own user turn.
C23_QuickStoreProcessWide ==
    [][(/\ last.kind = "response" /\ last.chatType = "quick" /\ last.ok
        /\ last'.kind = "sendMessage" /\ last'.chatType = "quick" /\ last'.ok
        /\ last'.w # last.w) =>
          LET sent == inflight'[Len(inflight')].request.messages IN
          /\ Len(sent) >= 3
          /\ sent[Len(sent) - 1] = Msg("assistant", "reply")
          /\ sent[Len(sent)] = Msg("user", last'.text)]_vars

\* C30: the payload of a sendChat request is, for a non-blank system
\* prompt, one user message holding the prompt followed by the caller's
\* messages in order, and for a blank or empty prompt the caller's messages
\* alone; stream is false; the caller's array is after the call what it was
\* before it.
C30_PromptPrependedInPayloadOnly ==
    (svc.op = "sendChat" /\ svc.model # "") =>
        LET payload == svc.issued[1].data[1] IN
        /\ payload.stream = FALSE
        /\ payload.messages =
              (IF svc.systemPrompt \in {"", " "} THEN <<>>
               ELSE <<[t |-> "object",
                       o |-> <<[k |-> "role", v |-> JStr("user")],
                               [k |-> "content", v |-> JStr(svc.systemPrompt)]>>]>>)
              \o svc.given.a
        /\ svc.messages = svc.given

\* a sendChat with the prompt "Be concise" and a two-message conversation
\* has issued a request of three messages
C30_Witness ==
    /\ svc.op = "sendChat" /\ svc.pc = "awaiting"
    /\ svc.systemPrompt = "Be concise"
    /\ svc.given = PriorWithoutPrompt
    /\ Len(svc.issued[1].data[1].messages) = 3
    /\ svc.messages = PriorWithoutPrompt

\* a sendChat with a whitespace-only prompt has issued a request of the
\* caller's two messages alone
C30_WitnessBlank ==
    /\ svc.op = "sendChat" /\ svc.pc = "awaiting"
    /\ svc.systemPrompt = " "
    /\ svc.issued[1].data[1].messages = PriorWithoutPrompt.a

\* C31: a prompt-mode send puts exactly one request in flight, whose payload
\* is the system prompt message (when the prompt is non-blank) followed by
\* the one user message of the send: a function of the text and the
\* configuration alone, whatever sends, clears and imports came before.
C31_PromptPayloadStateless ==
    [][(last'.kind = "sendMessage" /\ last'.chatType = "prompt" /\ last'.text # "") =>
          LET c == config[last'.w] IN
          inflight' =
             Append(inflight,
                    Pending(last'.w, "prompt",
                            [model |-> c.defaultModel,
                             messages |->
                                (IF HasPrompt(c.systemPrompt)
                                 THEN <<Msg("user", c.systemPrompt)>>
                                 ELSE <<>>) \o <<Msg("user", last'.text)>>,
                             stream |-> FALSE]))]_vars

\* a prompt send of "bye" after a saved exchange and with a second one in
\* progress: its payload holds the prompt and "bye" and nothing of the saved
\* history
C31_Witness ==
    /\ last.kind = "sendMessage" /\ last.chatType = "prompt" /\ last.text = "bye"
    /\ Len(Elems(saved[1])) >= 3
    /\ Len(inflight) = 2
    /\ inflight[1].chatType = "saved"
    /\ inflight[2].request.messages = <<Msg("user", "Be concise"), Msg("user", "bye")>>

\* a step that resets the saved history: a clear or an import
ResetStep(l) == l.kind \in {"clearSavedChat", "importConversation"}

\* C32: a step that is no clear and no import changes a saved history only
\* by adding one message at its end: an accepted saved send adds the user
\* turn, a successful saved reply adds the assistant turn, and every other
\* such step leaves it as it is; what was there stays, in its order.
C32_SavedAppendOnly ==
    [][~ResetStep(last') =>
          \A w \in Windows :
             LET before == Elems(saved[w])
                 after == Elems(saved'[w])
             IN  IF last'.w = w /\ last'.chatType = "saved" /\ last'.ok
                    /\ last'.kind \in {"sendMessage", "response"}
                 THEN /\ Len(after) = Len(before) + 1
                      /\ SubSeq(after, 1, Len(before)) = before
                      /\ after[Len(after)] =
                            IF last'.kind = "sendMessage"
                            THEN Msg("user", last'.text)
                            ELSE MsgV("assistant", emitted'[1].text)
                 ELSE saved'[w] = saved[w]]_vars

\* the same text sent twice, the first exchange failing: both user turns are
\* kept, next to each other, and the reply follows them
C32_Witness ==
    /\ last.kind = "response" /\ last.chatType = "saved" /\ last.ok
    /\ inflight = <<>>
    /\ saved[1] = JArr(<<Msg("user", "Be concise"), Msg("user", "hello"),
                         Msg("user", "hello"), Msg("assistant", "reply")>>)

\* the answers whose body does not parse, or parses to a value without a
\* message field
BadBodies ==
    {r \in ChatResponses :
        /\ r.kind = "body"
        /\ \/ ~JSONparse(r.text).ok
           \/ ~HasKey(JSONparse(r.text).val, "message")}

\* C33: when the backend answers a chat request with a body that does not
\* parse, or that parses without a message field, sendChat throws, the
\* handler posts the error as its one receiveMessage, no saved history and
\* not the file changes and no save is started: no assistant turn is stored
\* for the exchange.
C33_BadBodyStoresNothing ==
    [][\A i \in 1..Len(inflight), resp \in BadBodies :
          Complete(i, resp) =>
             /\ ~sendChatResult(resp).ok
             /\ ~last'.ok
             /\ emitted' =
                   <<ReceiveMessage(inflight[i].w,
                        JStr("Error: Error: Failed to get response from Ollama: "
                             \o (IF JSONparse(resp.text).ok THEN "TypeError"
                                 ELSE "Error: Invalid JSON response")),
                        inflight[i].chatType)>>
             /\ UNCHANGED <<saved, file, io>>]_vars

\* a saved exchange answered with a body that has no message field: the
\* error is posted, the history ends with the user turn, no file is written
C33_Witness ==
    /\ last.kind = "response" /\ last.chatType = "saved" /\ ~last.ok
    /\ emitted = <<ReceiveMessage(1,
                      JStr("Error: Error: Failed to get response from Ollama: TypeError"),
                      "saved")>>
    /\ inflight = <<>>
    /\ saved[1] = JArr(<<Msg("user", "hello")>>)
    /\ ~file.exists /\ io = <<>>

\* a saved exchange answered with a body that is no JSON
C33_WitnessUnparseable ==
    /\ last.kind = "response" /\ last.chatType = "saved" /\ ~last.ok
    /\ emitted = <<ReceiveMessage(1,
                      JStr("Error: Error: Failed to get response from Ollama: Error: Invalid JSON response"),
                      "saved")>>
    /\ saved[1] = JArr(<<Msg("user", "hello")>>)

\* C34: once the clearSavedChat case has run, the saved history in memory
\* and the persisted history both equal the system prompt message alone, or
\* the empty sequence when the prompt is blank.
C34_ClearedInMemoryAndOnFile ==
    (last.kind = "clearSavedChat") =>
        /\ saved[last.w] = ClearedExpected(last.w)
        /\ LoadAwaited(file, workspace) = ClearedExpected(last.w)

\* C35: a clearSavedChat sent with chatType "quick" leaves every saved
\* history and the file as they were and starts no save; only one sent with
\* chatType "saved" resets the saved conversation.
C35_QuickClearKeepsSaved ==
    [][(last'.kind = "clearSavedChat" /\ last'.chatType = "quick") =>
          UNCHANGED <<saved, file, io>>]_vars

\* C36: when a clear or a successful import of a window is followed by the
\* completion of a saved request of that window (sent before the reset, as
\* the reset was the latest command), the completion leaves the window's
\* history and the file as the reset left them and starts no save: the reply
\* is not added.
C36_ResetNotPolluted ==
    [][(/\ ResetStep(last) /\ last.ok
        /\ last'.kind = "response" /\ last'.chatType = "saved"
        /\ last'.w = last.w) =>
          /\ saved'[last.w] = saved[last.w]
          /\ UNCHANGED <<file, io>>]_vars

\* how many messages of a sequence have the role
CountRole(a, role) ==
    Cardinality({i \in 1..Len(a) : Get(a[i], "role") = JStr(role)})

\* the user turns of a sequence, in their order
RECURSIVE UserTurns(_)
UserTurns(a) ==
    IF a = <<>> THEN <<>>
    ELSE IF Get(a[Len(a)], "role") = JStr("user")
         THEN Append(UserTurns(SubSeq(a, 1, Len(a) - 1)), a[Len(a)])
         ELSE UserTurns(SubSeq(a, 1, Len(a) - 1))

\* C37: with saved sends of one window overlapping and no reset between,
\* every send, also one that arrives while requests are in flight, appends
\* its user turn at once and sends the history with it; every reply, in
\* whatever order the requests complete, appends its assistant turn at the
\* end, and a failure appends nothing; every send so far has exactly one
\* user turn in the history, in arrival order, the assistant turns number
\* at most the completed exchanges, and the history has grown by one per
\* send plus one per reply.
C37_OverlapKeepsEveryTurn ==
    [][LET w == last'.w
           before == Elems(saved[w])
           after == Elems(saved'[w])
           sends == ncmds' - Cardinality(MainWindows)
           base == Len(ClearedExpected(w).a)
       IN  /\ (last'.kind = "sendMessage") =>
                /\ after = Append(before, Msg("user", last'.text))
                /\ Len(inflight') = Len(inflight) + 1
                /\ inflight'[Len(inflight')].request.messages = after
           /\ (last'.kind = "response") =>
                /\ Len(inflight') = Len(inflight) - 1
                /\ after = IF last'.ok
                           THEN Append(before, Msg("assistant", "reply"))
                           ELSE before
           /\ (last'.kind \in {"sendMessage", "response"}) =>
                /\ CountRole(after, "user") = base + sends
                /\ CountRole(after, "assistant") <= sends - Len(inflight')
                /\ Len(after) = base + sends + CountRole(after, "assistant")
                /\ \A i \in 1..Len(inflight') :
                      LET sent == UserTurns(inflight'[i].request.messages) IN
                      /\ Len(sent) <= CountRole(after, "user")
                      /\ SubSeq(UserTurns(after), 1, Len(sent)) = sent]_vars

\* "hello" then "bye" sent before any reply, both answered: the two user
\* turns in arrival order, then the two replies, four messages for two
\* exchanges, and two writes under way
C37_Witness ==
    /\ ncmds = 3
    /\ last.kind = "response" /\ last.ok
    /\ inflight = <<>>
    /\ saved[1] = JArr(<<Msg("user", "hello"), Msg("user", "bye"),
                         Msg("assistant", "reply"), Msg("assistant", "reply")>>)
    /\ Len(io) = 2 /\ io[2].text = SavedText(saved[1])

\* the same two sends, one of them failing: three messages
C37_WitnessFailure ==
    /\ ncmds = 3
    /\ last.kind = "response" /\ ~last.ok
    /\ inflight = <<>>
    /\ saved[1] = JArr(<<Msg("user", "hello"), Msg("user", "bye"),
                         Msg("assistant", "reply")>>)

\* C38: every refreshModels command is eventually answered by its
\* updateModels event.
C38_RefreshAnswered ==
    (last.kind = "refreshModels") ~>
        (last.kind = "models" /\ Len(emitted) = 1
            /\ emitted[1].command = "updateModels")

\* what holds of every answer that does arrive: exactly one updateModels
\* event, to the window that asked, with the names of the models of the
\* response, or the empty list when the request or the reading of the
\* response failed
RefreshAnswerShape ==
    [][\A i \in 1..Len(refreshing), resp \in TagsResponses :
          (ModelsAnswered(i, resp) /\ panel[refreshing[i].w]) =>
             LET body == JSONparse(resp.text)
                 ok == resp.kind = "body" /\ body.ok /\ ModelNames(body.val).ok
             IN  emitted' = <<UpdateModels(refreshing[i].w,
                                IF ok THEN ModelNames(body.val).val ELSE JArr(<<>>))>>]_vars


\* handling refreshModels and its answer changes no history and no file and
\* starts no save
RefreshFrame ==
    [][(last'.kind \in {"refreshModels", "models"}) =>
          UNCHANGED <<saved, file, io>>]_vars

====
